---- MODULE Spec2Model ----
(***************************************************************************)
(* Model of the vCPU engine (cpu/src/lib.rs) and of the virtio-net device  *)
(* (virtio/src/net.rs).                                                    *)
(*                                                                         *)
(* The vCPU part is a multi-threaded state machine: controller threads     *)
(* call the CPUInterface operations, each cut at the points where the code *)
(* releases one lock and takes the next; worker threads run                *)
(* CPUThreadWorker::handle; the TASK / RESET signal handlers run on the    *)
(* worker thread they were sent to, at any point of its execution.         *)
(***************************************************************************)
EXTENDS Integers, Sequences, FiniteSets, TLC

(***************************************************************************)
(* Bounds of the model.                                                    *)
(***************************************************************************)
\* Number of controller operations that may be started in one behaviour.
MaxOps == 3
\* Number of worker threads start() may spawn in one behaviour.
MaxWorkers == 2
\* Number of signals of one kind that may be pending on one thread.
MaxPending == 1
\* queue_size of the device, and the chains the guest posts in all.
QueueSize == 2
MaxChains == 4
\* Taps sent on the config-update channel and not yet received.
MaxUpdates == 2
\* The longest buffer a config-space access carries.
MaxCfgLen == 2
\* The largest offset a config-space access is made at; it stands for
\* u64::MAX, past which checked_add has no result.
MaxOffset == 40
\* Devices created in one behaviour.
MaxPlugs == 4
\* Times realize runs on one device.
MaxRealize == 2
\* vCPUs of the machine (the size of the start barrier).
MaxVcpus == 3
\* Frames the tap holds for the device at a time.
MaxTapQueue == 3
\* Queue pairs of a multiqueue device, and update_config calls on it.
MaxPairs == 2
MaxReconfig == 3

\* net.rs:75-88.
MAC_ADDR_LEN == 6
ETHERNET_HDR_LENGTH == 14
CTRL_MAC_TABLE_LEN == 64
CTRL_MAX_VLAN == 4096
FIRST_DEFAULT_MAC == <<82, 84, 0, 18, 52, 86>>
\* The range of queue pairs a VQ_PAIRS_SET may ask for (imported by net.rs:34).
VIRTIO_NET_CTRL_MQ_VQ_PAIRS_MIN == 1
VIRTIO_NET_CTRL_MQ_VQ_PAIRS_MAX == 32

\* Controller threads (callers of the CPUInterface operations).
Ctls == {"c1", "c2"}
Workers == 1..MaxWorkers
\* Option<JoinHandle>: NoTask is None, a worker id is Some(handle).
NoTask == 0

\* Boot configurations and topologies handed to realize().
BootCfgs == {"bootA", "bootB"}
ArchDefault == "default"

VARIABLES
    \* ---- CPU (lib.rs:132-153) ----
    state,          \* CPU.state: the lifecycle state under the mutex
    pause_signal,   \* CPU.pause_signal
    immediate_exit, \* kvm_run.immediate_exit of CPU.fd
    task,           \* CPU.task: NoTask or the worker whose JoinHandle is stored
    task_lock,      \* holder of CPU.task's mutex, or "free"
    arch_cpu,       \* CPU.arch_cpu (opaque register state)
    boot_state,     \* CPU.boot_state
    \* ---- process-wide ----
    proc_killed,    \* an RT signal hit a thread with the default disposition
    \* ---- worker threads ----
    wpc,            \* position of each worker in CPUThreadWorker::handle
    sig_task,       \* pending VCPU_TASK_SIGNAL per worker thread
    sig_reset,      \* pending VCPU_RESET_SIGNAL per worker thread
    run_res,        \* result of fd.run() not yet dispatched by kvm_vcpu_exec
    \* ---- controller threads ----
    cpc,            \* position of each controller inside its operation
    carg,           \* argument / local of the operation in progress
    nops,           \* operations started so far
    \* ---- history ----
    realized,       \* a realize() has returned Ok
    reset_done,     \* the workers still before the start barrier on whose
                    \* thread the RESET handler has run reset_vcpu
    paused_ok,      \* a pause() returned Ok after signalling the worker and no
                    \* resume() has been called since
    ev              \* what the step just taken returned or did (NoEv when the
                    \* step is neither a return nor a dispatch)

cpuVars == <<state, pause_signal, immediate_exit, task, task_lock,
             arch_cpu, boot_state, proc_killed,
             wpc, sig_task, sig_reset, run_res,
             cpc, carg, nops, realized, reset_done, paused_ok, ev>>


(***************************************************************************)
(* CpuLifecycleState (lib.rs:69-82).                                       *)
(***************************************************************************)
\* ---- the virtio-net device ----
VARIABLES
    avail,          \* per queue: the chains made available and not yet popped
    used,           \* per queue: the ids of the chains put on the used ring
    posted,         \* per queue: how many chains the guest has posted
    queue_evt,      \* per queue: its eventfd is readable
    device_broken,  \* VirtioNet.broken, shared by the handlers
    has_tap,        \* NetIoHandler.tap is Some
    is_listening,   \* NetIoHandler.is_listening
    ctrl_info,      \* CtrlInfo: rx_mode, mac_info and vlan_map
    config_mac,     \* VirtioNetState.config_space.mac
    io_panicked,    \* the event-loop thread panicked inside a handler
    nev,            \* what the handler invocation just run did
    config_rest,    \* VirtioNetState.config_space after the mac field
    driver_features,\* VirtioNetState.driver_features (the bits write_config tests)
    update_evt,     \* NetIoHandler.update_evt is readable
    tap_chan,       \* what Net.senders[0] sent and NetIoHandler.receiver has not received
    cev,            \* what the config-space call just made did
    notifier_ops,   \* the notifier operations the callback just run returned
    tap_parked,     \* the tap's notifier is parked in the event loop
    used_mac_table, \* USED_MAC_TABLE, the process-wide table of default MACs in use
    nets,           \* the virtio-net devices of the machine, by slot
    plugs,          \* how many devices have been created
    mev,            \* what the device-lifetime operation just run did
    topo,           \* a CpuTopology and the vcpu_id asked about
    topo_out,       \* what get_topo_item returned for it
    bpc,            \* per vCPU of the machine: where its worker is in its startup
    arrived,        \* how many workers wait at the start barrier
    tap_queue,      \* the frames the host has queued in the tap and the device has not read
    tap_evt,        \* the event loop has an event of the tap to deliver
    net_taps,       \* Net.taps of a device with several queue pairs
    chans,          \* per queue pair: what Net.senders[i] sent and the handler has not received
    update_evts,    \* per queue pair: the value of Net.update_evts[i]
    handlers,       \* per queue pair: the tap and tap_fd of its NetIoHandler
    uev             \* what update_config or the update handler just run did

\* What the queue handlers leave alone: the rest of the config space, the
\* negotiated features and the config-update channel.
cfgVars == <<config_rest, driver_features, update_evt, tap_chan, cev>>

devVars == <<cfgVars, notifier_ops, tap_parked>>

\* State outside the one device's data path: the MAC allocator with the
\* devices it serves, and the CPU topology.
macVars == <<used_mac_table, nets, plugs, mev>>
topoVars == <<topo, topo_out>>
barVars == <<bpc, arrived>>
tapVars == <<tap_queue, tap_evt>>
updVars == <<net_taps, chans, update_evts, handlers, uev>>
sideVars == <<macVars, topoVars, barVars, tapVars, updVars>>

netVars == <<avail, used, posted, queue_evt, device_broken, has_tap,
             is_listening, ctrl_info, config_mac, io_panicked, nev, devVars,
             sideVars>>

vars == <<cpuVars, netVars>>

CpuLifecycleState == {"Nothing", "Created", "Running", "Paused", "Stopping", "Stopped"}

\* A worker thread exists and has not terminated.
Alive(w) == wpc[w] \notin {"unborn", "done", "failed"}
Terminated(w) == wpc[w] \in {"done", "failed"}

\* LOCAL_THREAD_VCPU of the worker's thread is Some (lib.rs:525-531).
Tls(w) == wpc[w] \notin {"unborn", "init"}
\* The thread has not yet returned from thread_barrier.wait() (lib.rs:631).
BeforeBarrier(w) == wpc[w] \in {"init", "signals", "reset", "barrier"}
\* Some worker has registered the signal handlers (lib.rs:572-575); the
\* registration is process-wide and is never undone.
HandlerInstalled == \E w \in Workers : wpc[w] \notin {"unborn", "init", "signals"}

\* The record of a step: a controller operation returning (kind "ret": the
\* operation, its result, what it observed), a worker spawned by start()
\* (kind "spawn") or a kvm_vcpu_exec (kind "exec": what fd.run() returned,
\* what kvm_vcpu_exec returned, the machine call it made).
NoEv == [kind |-> "none", c |-> "none", w |-> 0, op |-> "none", res |-> "none", seen |-> "none"]
MkRet(c, op, res, seen) == [kind |-> "ret", c |-> c, w |-> 0, op |-> op, res |-> res, seen |-> seen]
MkSpawn(c, w, st) == [kind |-> "spawn", c |-> c, w |-> w, op |-> "start", res |-> "none", seen |-> st]
MkReset(w, at) == [kind |-> "reset_vcpu", c |-> "none", w |-> w, op |-> "none", res |-> "none", seen |-> at]
MkExec(w, run, r, vm) == [kind |-> "exec", c |-> "none", w |-> w, op |-> run, res |-> r, seen |-> vm]

(***************************************************************************)
(* CPU::new (lib.rs:164-182).                                              *)
(***************************************************************************)
InitCpu ==
    /\ state = "Created"
    /\ pause_signal = FALSE
    /\ immediate_exit = FALSE
    /\ task = NoTask
    /\ task_lock = "free"
    /\ arch_cpu = ArchDefault
    /\ boot_state = ArchDefault
    /\ proc_killed = FALSE
    /\ wpc = [w \in Workers |-> "unborn"]
    /\ sig_task = [w \in Workers |-> 0]
    /\ sig_reset = [w \in Workers |-> 0]
    /\ run_res = [w \in Workers |-> "none"]
    /\ cpc = [c \in Ctls |-> "idle"]
    /\ carg = [c \in Ctls |-> "none"]
    /\ nops = 0
    /\ realized = FALSE
    /\ reset_done = {}
    /\ paused_ok = FALSE
    /\ ev = NoEv


(***************************************************************************)
(* Helpers for the primitives the operations use.                          *)
(***************************************************************************)
\* Killable::kill (pthread_kill) on the thread t: the signal is queued on a
\* live thread and has no effect on one that has terminated.
Kill(pending, t) ==
    IF Alive(t) /\ pending[t] < MaxPending
    THEN [pending EXCEPT ![t] = @ + 1]
    ELSE pending

\* kill on the thread of the stored handle, if there is one (the match on
\* task.as_ref() of kick / reset / pause).
KillTask(pending) == IF task = NoTask THEN pending ELSE Kill(pending, task)

\* Condvar::notify_one on CPU.state's condvar, given the positions wp / cp the
\* threads have after the notifier's own update: one of the threads blocked in
\* a wait (a worker in ready_for_running, a controller in destroy's
\* wait_timeout) is woken; with no waiter the notification is lost.
NotifyOne(wp, cp) ==
    LET ww == {w \in Workers : wp[w] = "cv_wait"}
        cw == {c \in Ctls : cp[c] = "destroy_wait"}
    IN  IF ww = {} /\ cw = {}
        THEN wpc' = wp /\ cpc' = cp
        ELSE \/ \E w \in ww : wpc' = [wp EXCEPT ![w] = "ready"] /\ cpc' = cp
             \/ \E c \in cw : cpc' = [cp EXCEPT ![c] = "destroy_woken"] /\ wpc' = wp

\* A controller thread may start an operation.
CanBegin(c) == cpc[c] = "idle" /\ nops < MaxOps /\ ~proc_killed
\* A controller thread is at position p of its operation.
At(c, p) == cpc[c] = p /\ ~proc_killed
Goto(c, p) == cpc' = [cpc EXCEPT ![c] = p]

flagVars == <<pause_signal, immediate_exit>>
taskVars == <<task, task_lock>>
archVars == <<arch_cpu, boot_state, realized, reset_done>>
sigVars == <<sig_task, sig_reset>>
envVars == <<proc_killed>>
wlocVars == <<run_res>>

(***************************************************************************)
(* CPU::realize (lib.rs:227-261).                                          *)
(***************************************************************************)
\* lib.rs:234-240: the state check, under the state mutex.
RealizeCheck(c, boot) ==
    /\ CanBegin(c)
    /\ nops' = nops + 1
    /\ IF state # "Created"
       THEN /\ ev' = MkRet(c, "realize", "RealizeVcpu", state)
            /\ UNCHANGED <<cpc, carg>>
       ELSE /\ Goto(c, "realize_arch")
            /\ carg' = [carg EXCEPT ![c] = boot]
            /\ ev' = NoEv
    /\ UNCHANGED <<state, flagVars, taskVars, archVars, sigVars, envVars,
                   wpc, wlocVars, paused_ok>>
    /\ UNCHANGED netVars

\* lib.rs:242-260: set_boot_config, set_cpu_topology (either may fail, and
\* realize then returns early), then the snapshot into boot_state.
RealizeArch(c) ==
    /\ At(c, "realize_arch")
    /\ \E outcome \in {"Ok", "BootConfigError", "TopologyError"} :
        /\ arch_cpu' = IF outcome = "BootConfigError" THEN arch_cpu ELSE carg[c]
        /\ boot_state' = IF outcome = "Ok" THEN carg[c] ELSE boot_state
        /\ realized' = (realized \/ outcome = "Ok")
        /\ ev' = MkRet(c, "realize", outcome, state)
    /\ Goto(c, "idle")
    /\ carg' = [carg EXCEPT ![c] = "none"]
    /\ UNCHANGED <<state, flagVars, taskVars, sigVars, envVars, wpc, wlocVars,
                   nops, reset_done, paused_ok>>
    /\ UNCHANGED netVars

(***************************************************************************)
(* CPU::resume (lib.rs:263-276): one critical section of the state mutex.  *)
(***************************************************************************)
Resume(c) ==
    /\ CanBegin(c)
    /\ nops' = nops + 1
    /\ paused_ok' = FALSE
    /\ ev' = MkRet(c, "resume", "Ok", state)
    /\ IF state = "Running"
       THEN UNCHANGED <<state, pause_signal, wpc, cpc>>
       ELSE /\ state' = "Running"
            /\ pause_signal' = FALSE
            /\ NotifyOne(wpc, cpc)
    /\ UNCHANGED <<immediate_exit, taskVars, archVars, sigVars, envVars,
                   wlocVars, carg>>
    /\ UNCHANGED netVars

(***************************************************************************)
(* CPU::start (lib.rs:278-309) and CPU::set_task (lib.rs:209-213).         *)
(***************************************************************************)
\* Worker threads not yet spawned; start() takes the lowest.
Unborn == {w \in Workers : wpc[w] = "unborn"}
NextWorker == CHOOSE w \in Unborn : \A v \in Unborn : w <= v

\* lib.rs:279-284: the Running check.
StartCheck(c, paused) ==
    /\ CanBegin(c)
    /\ nops' = nops + 1
    /\ IF state = "Running"
       THEN /\ ev' = MkRet(c, "start", "StartVcpu", state)
            /\ UNCHANGED <<cpc, carg>>
       ELSE \* bound: a worker id is left for every start() past its check
            /\ Cardinality(Unborn) > Cardinality({d \in Ctls : cpc[d] = "start_set"})
            /\ Goto(c, "start_set")
            /\ carg' = [carg EXCEPT ![c] = IF paused THEN "paused" ELSE "unpaused"]
            /\ ev' = NoEv
    /\ UNCHANGED <<state, flagVars, taskVars, archVars, sigVars, envVars,
                   wpc, wlocVars, paused_ok>>
    /\ UNCHANGED netVars

\* A start() that ignores its `paused` argument.
StartStateRunning(flag) == "Running"

\* The state start() writes for its `paused` argument (lib.rs:285-289).
StartState(flag) == IF flag = "paused" THEN "Paused" ELSE "Running"

\* lib.rs:285-306: the state write (a second critical section) and the spawn
\* of the worker thread.
StartSetSpawn(c) ==
    /\ At(c, "start_set")
    /\ state' = StartState(carg[c])
    /\ wpc' = [wpc EXCEPT ![NextWorker] = "init"]
    /\ carg' = [carg EXCEPT ![c] = ToString(NextWorker)]
    /\ Goto(c, "start_lock_task")
    /\ ev' = MkSpawn(c, NextWorker, carg[c])
    /\ UNCHANGED <<flagVars, taskVars, archVars, sigVars, envVars, wlocVars,
                   nops, paused_ok>>
    /\ UNCHANGED netVars

\* lib.rs:210: set_task takes the task mutex.
StartLockTask(c) ==
    /\ At(c, "start_lock_task")
    /\ task_lock = "free"
    /\ task_lock' = c
    /\ Goto(c, "start_join")
    /\ ev' = NoEv
    /\ UNCHANGED <<state, flagVars, task, archVars, sigVars, envVars, wpc,
                   wlocVars, carg, nops, paused_ok>>
    /\ UNCHANGED netVars

\* The thread of the JoinHandle start() holds in its local `handle`.
HandleThread(h) == CHOOSE w \in Workers : ToString(w) = h

\* lib.rs:211-212: the previous handle, if any, is joined (which blocks until
\* that thread has terminated) and the new handle is stored.
StartJoinStore(c) ==
    /\ At(c, "start_join")
    /\ IF task = NoTask THEN TRUE ELSE Terminated(task)
    /\ task' = HandleThread(carg[c])
    /\ task_lock' = "free"
    /\ ev' = MkRet(c, "start", "Ok", "none")
    /\ Goto(c, "idle")
    /\ carg' = [carg EXCEPT ![c] = "none"]
    /\ UNCHANGED <<state, flagVars, archVars, sigVars, envVars, wpc, wlocVars,
                   nops, paused_ok>>
    /\ UNCHANGED netVars

(***************************************************************************)
(* CPU::reset (lib.rs:311-322) and CPU::kick (lib.rs:324-335): under the   *)
(* task mutex, the signal is sent to the thread of the stored handle.      *)
(***************************************************************************)
Reset(c) ==
    /\ CanBegin(c)
    /\ task_lock = "free"
    /\ nops' = nops + 1
    /\ sig_reset' = KillTask(sig_reset)
    /\ ev' = MkRet(c, "reset", "Ok", IF task = NoTask THEN "NotStarted" ELSE "Sent")
    /\ UNCHANGED <<state, flagVars, taskVars, archVars, sig_task, envVars, wpc,
                   wlocVars, cpc, carg, paused_ok>>
    /\ UNCHANGED netVars

Kick(c) ==
    /\ CanBegin(c)
    /\ task_lock = "free"
    /\ nops' = nops + 1
    /\ sig_task' = KillTask(sig_task)
    /\ ev' = MkRet(c, "kick", "Ok", IF task = NoTask THEN "NotStarted" ELSE "Sent")
    /\ UNCHANGED <<state, flagVars, taskVars, archVars, sig_reset, envVars, wpc,
                   wlocVars, cpc, carg, paused_ok>>
    /\ UNCHANGED netVars

(***************************************************************************)
(* CPU::pause (lib.rs:337-366).  The task mutex is held from the first     *)
(* line to the return.                                                     *)
(***************************************************************************)
\* lib.rs:338-341: take the task mutex, then the Running check.
PauseBegin(c) ==
    /\ CanBegin(c)
    /\ task_lock = "free"
    /\ task_lock' = c
    /\ nops' = nops + 1
    /\ Goto(c, IF state = "Running" THEN "pause_set" ELSE "pause_kill")
    /\ ev' = NoEv
    /\ UNCHANGED <<state, flagVars, task, archVars, sigVars, envVars, wpc,
                   wlocVars, carg, paused_ok>>
    /\ UNCHANGED netVars

\* lib.rs:342-343: the state write (a second critical section) and notify_one.
PauseSet(c) ==
    /\ At(c, "pause_set")
    /\ state' = "Paused"
    /\ NotifyOne(wpc, [cpc EXCEPT ![c] = "pause_kill"])
    /\ ev' = NoEv
    /\ UNCHANGED <<flagVars, taskVars, archVars, sigVars, envVars, wlocVars,
                   carg, nops, paused_ok>>
    /\ UNCHANGED netVars

\* lib.rs:346-356: send TASK to the worker, or return when there is none.
PauseKill(c) ==
    /\ At(c, "pause_kill")
    /\ IF task = NoTask
       THEN /\ task_lock' = "free"
            /\ Goto(c, "idle")
            /\ ev' = MkRet(c, "pause", "Ok", "NotStarted")
            /\ UNCHANGED sig_task
       ELSE /\ sig_task' = Kill(sig_task, task)
            /\ Goto(c, "pause_spin")
            /\ ev' = NoEv
            /\ UNCHANGED task_lock
    /\ UNCHANGED <<state, flagVars, task, archVars, sig_reset, envVars, wpc,
                   wlocVars, carg, nops, paused_ok>>
    /\ UNCHANGED netVars

\* lib.rs:359-365: the spin on pause_signal ends when it reads true.
PauseSpin(c) ==
    /\ At(c, "pause_spin")
    /\ pause_signal
    /\ task_lock' = "free"
    /\ Goto(c, "idle")
    /\ ev' = MkRet(c, "pause", "Ok", "Signalled")
    /\ paused_ok' = TRUE
    /\ UNCHANGED <<state, flagVars, task, archVars, sigVars, envVars, wpc,
                   wlocVars, carg, nops>>
    /\ UNCHANGED netVars

(***************************************************************************)
(* CPU::destroy (lib.rs:368-393).                                          *)
(***************************************************************************)
\* A check that sends a Paused vCPU to the write of Stopping as well.
DestroyCheckRunningLoose(c) ==
    /\ CanBegin(c)
    /\ nops' = nops + 1
    /\ Goto(c, IF state \in {"Running", "Paused"} THEN "destroy_set_stopping"
                                                  ELSE "destroy_check_stopped")
    /\ ev' = NoEv
    /\ UNCHANGED <<state, flagVars, taskVars, archVars, sigVars, envVars, wpc,
                   wlocVars, carg, paused_ok>>
    /\ UNCHANGED netVars

\* lib.rs:370: the Running check.
DestroyCheckRunning(c) ==
    /\ CanBegin(c)
    /\ nops' = nops + 1
    /\ Goto(c, IF state = "Running" THEN "destroy_set_stopping"
                                     ELSE "destroy_check_stopped")
    /\ ev' = NoEv
    /\ UNCHANGED <<state, flagVars, taskVars, archVars, sigVars, envVars, wpc,
                   wlocVars, carg, paused_ok>>
    /\ UNCHANGED netVars

\* lib.rs:371: the write of Stopping (a second critical section).
DestroySetStopping(c) ==
    /\ At(c, "destroy_set_stopping")
    /\ state' = "Stopping"
    /\ Goto(c, "destroy_kick")
    /\ ev' = NoEv
    /\ UNCHANGED <<flagVars, taskVars, archVars, sigVars, envVars, wpc,
                   wlocVars, carg, nops, paused_ok>>
    /\ UNCHANGED netVars

\* lib.rs:372: the Stopped check.
DestroyCheckStopped(c) ==
    /\ At(c, "destroy_check_stopped")
    /\ Goto(c, IF state = "Stopped" THEN "destroy_set_nothing" ELSE "destroy_kick")
    /\ carg' = [carg EXCEPT ![c] = state]
    /\ ev' = NoEv
    /\ UNCHANGED <<state, flagVars, taskVars, archVars, sigVars, envVars, wpc,
                   wlocVars, nops, paused_ok>>
    /\ UNCHANGED netVars

\* lib.rs:373-374: the write of Nothing (a second critical section); return.
DestroySetNothing(c) ==
    /\ At(c, "destroy_set_nothing")
    /\ state' = "Nothing"
    /\ Goto(c, "idle")
    /\ ev' = MkRet(c, "destroy", "Ok", carg[c])
    /\ carg' = [carg EXCEPT ![c] = "none"]
    /\ UNCHANGED <<flagVars, taskVars, archVars, sigVars, envVars, wpc,
                   wlocVars, nops, paused_ok>>
    /\ UNCHANGED netVars

\* lib.rs:377-382: kick(), then the state mutex is taken and wait_timeout
\* releases it and blocks on the condvar.
DestroyKickWait(c) ==
    /\ At(c, "destroy_kick")
    /\ task_lock = "free"
    /\ sig_task' = KillTask(sig_task)
    /\ Goto(c, "destroy_wait")
    /\ carg' = [carg EXCEPT ![c] = "none"]
    /\ ev' = NoEv
    /\ UNCHANGED <<state, flagVars, taskVars, archVars, sig_reset, envVars,
                   wpc, wlocVars, nops, paused_ok>>
    /\ UNCHANGED netVars

\* lib.rs:380: wait_timeout returns without a notification, at the latest
\* after 32 ms.
DestroyTimeout(c) ==
    /\ At(c, "destroy_wait")
    /\ Goto(c, "destroy_woken")
    /\ ev' = NoEv
    /\ UNCHANGED <<state, flagVars, taskVars, archVars, sigVars, envVars, wpc,
                   wlocVars, carg, nops, paused_ok>>
    /\ UNCHANGED netVars

\* A destroy() that writes Nothing and returns Ok whatever it sees.
DestroyOutcomeForced(seen) == [state |-> "Nothing", res |-> "Ok"]

\* The state destroy() leaves and what it returns, given the state it sees
\* after the wait (lib.rs:384-392).
DestroyOutcome(seen) ==
    IF seen = "Stopped"
    THEN [state |-> "Nothing", res |-> "Ok"]
    ELSE [state |-> seen, res |-> "DestroyVcpu"]

\* lib.rs:384-392, with the state mutex held again.
DestroyFinish(c) ==
    /\ At(c, "destroy_woken")
    /\ state' = DestroyOutcome(state).state
    /\ ev' = MkRet(c, "destroy", DestroyOutcome(state).res, state)
    /\ Goto(c, "idle")
    /\ UNCHANGED <<flagVars, taskVars, archVars, sigVars, envVars, wpc,
                   wlocVars, carg, nops, paused_ok>>
    /\ UNCHANGED netVars

(***************************************************************************)
(* CPU::kvm_vcpu_exec (lib.rs:431-507) with guest_shutdown / guest_reset   *)
(* (lib.rs:395-429), as a function of what fd.run() returned.              *)
(***************************************************************************)
\* What fd.run() can return: the VcpuExit variants the match names, any other
\* variant, and the errno values of a failed run.
RunOutcomes == {"MmioRead", "MmioWrite", "SystemEventShutdown", "SystemEventReset",
                "SystemEventOther", "FailEntry", "InternalError", "OtherExit",
                "EAGAIN", "EINTR", "EOTHER"}

\* ret: Ok(true) is "continue", Ok(false) is "stop", otherwise the CpuError;
\* vm: the MachineInterface call made; stopped: guest_shutdown wrote Stopped;
\* clear: set_kvm_immediate_exit(0) was called.
ExecResult(r, v, st, cl) == [ret |-> r, vm |-> v, stopped |-> st, clear |-> cl]

\* The errno values of a failed run.
Errnos == {"EAGAIN", "EINTR", "EOTHER"}

\* lib.rs:439-493: the match on the VcpuExit of a successful run.
DispatchExit(run) ==
    CASE run = "MmioRead"            -> ExecResult("continue", "mmio_read", FALSE, FALSE)
      [] run = "MmioWrite"           -> ExecResult("continue", "mmio_write", FALSE, FALSE)
      [] run = "SystemEventShutdown" -> ExecResult("stop", "destroy", TRUE, FALSE)
      [] run = "SystemEventReset"    -> ExecResult("continue", "reset", FALSE, FALSE)
      [] run = "SystemEventOther"    -> ExecResult("stop", "none", FALSE, FALSE)
      [] run = "FailEntry"           -> ExecResult("stop", "none", FALSE, FALSE)
      [] run = "InternalError"       -> ExecResult("stop", "none", FALSE, FALSE)
      [] OTHER                       -> ExecResult("VcpuExitReason", "none", FALSE, FALSE)

\* A match on the errno that has no arm for EINTR.
DispatchErrnoNoEintr(run) ==
    IF run = "EAGAIN"
    THEN ExecResult("continue", "none", FALSE, FALSE)
    ELSE ExecResult("UnhandledKvmExit", "none", FALSE, FALSE)

\* lib.rs:494-504: the match on the errno of a failed run.
DispatchErrno(run) ==
    CASE run = "EAGAIN" -> ExecResult("continue", "none", FALSE, FALSE)
      [] run = "EINTR"  -> ExecResult("continue", "none", FALSE, TRUE)
      [] OTHER          -> ExecResult("UnhandledKvmExit", "none", FALSE, FALSE)

\* lib.rs:438-506.
KvmVcpuExec(run) == IF run \in Errnos THEN DispatchErrno(run) ELSE DispatchExit(run)

\* lib.rs:634-642: what the loop does with the value kvm_vcpu_exec returned:
\* Ok(true) loops, Ok(false) breaks, an error leaves handle() through `?`.
AfterExec(r) ==
    CASE r = "continue" -> "ready"
      [] r = "stop"     -> "exit"
      [] OTHER          -> "failed"

(***************************************************************************)
(* CPUThreadWorker::handle (lib.rs:611-657), one action per step.          *)
(***************************************************************************)
WAt(w, p) == wpc[w] = p /\ ~proc_killed
WGoto(w, p) == wpc' = [wpc EXCEPT ![w] = p]

ctlVars == <<cpc, carg, nops>>

\* Signals still pending on a thread that terminates are never handled.
Discard(pending, w, p) == IF p \in {"done", "failed"} THEN [pending EXCEPT ![w] = 0] ELSE pending

\* lib.rs:612: init_local_thread_vcpu.
WInitLocal(w) ==
    /\ WAt(w, "init")
    /\ WGoto(w, "signals")
    /\ ev' = NoEv
    /\ UNCHANGED <<state, flagVars, taskVars, archVars, sigVars, envVars,
                   wlocVars, ctlVars, paused_ok>>
    /\ UNCHANGED netVars

\* lib.rs:613-620: init_signals registers the handler for both signals
\* (process-wide); set_tid.
WInitSignals(w) ==
    /\ WAt(w, "signals")
    /\ WGoto(w, "reset")
    /\ ev' = NoEv
    /\ UNCHANGED <<state, flagVars, taskVars, archVars, sigVars, envVars,
                   wlocVars, ctlVars, paused_ok>>
    /\ UNCHANGED netVars

\* lib.rs:624-627: self.thread_cpu.reset(), which is CPU::reset (lib.rs:311-322)
\* called on the worker thread: RESET goes to the thread of the stored handle,
\* and nothing is sent when no handle is stored yet.  A signal a thread sends
\* to itself is handled before kill returns (lib.rs:559-567 runs here).
WReset(w) ==
    /\ WAt(w, "reset")
    /\ task_lock = "free"
    /\ IF task = w
       THEN /\ reset_done' = reset_done \cup {w}
            /\ ev' = MkReset(w, wpc[w])
            /\ UNCHANGED sig_reset
       ELSE /\ sig_reset' = KillTask(sig_reset)
            /\ ev' = NoEv
            /\ UNCHANGED reset_done
    /\ WGoto(w, "barrier")
    /\ UNCHANGED <<state, flagVars, taskVars, arch_cpu, boot_state, realized, sig_task,
                   envVars, wlocVars, ctlVars, paused_ok>>
    /\ UNCHANGED netVars

\* lib.rs:631: thread_barrier.wait() returns (the other vCPUs have arrived).
WBarrier(w) ==
    /\ WAt(w, "barrier")
    /\ WGoto(w, "ready")
    /\ reset_done' = reset_done \ {w}
    /\ ev' = NoEv
    /\ UNCHANGED <<state, flagVars, taskVars, arch_cpu, boot_state, realized, sigVars,
                   envVars, wlocVars, ctlVars, paused_ok>>
    /\ UNCHANGED netVars

\* A ready_for_running that returns true for Paused.
ReadyForRunningNoWait(st) == IF st \in {"Stopping", "Stopped"} THEN "exit" ELSE "kvm_run"

\* ready_for_running (lib.rs:581-608): where the worker goes for the state
\* it reads under the mutex.
ReadyForRunning(st) ==
    CASE st = "Paused"                  -> "cv_wait"
      [] st = "Running"                 -> "kvm_run"
      [] st \in {"Stopping", "Stopped"} -> "exit"
      [] OTHER                          -> "kvm_run"

\* lib.rs:634: one evaluation of the match of ready_for_running.
WReady(w) ==
    /\ WAt(w, "ready")
    /\ WGoto(w, ReadyForRunning(state))
    /\ ev' = NoEv
    /\ UNCHANGED <<state, flagVars, taskVars, archVars, sigVars, envVars,
                   wlocVars, ctlVars, paused_ok>>
    /\ UNCHANGED netVars

\* lib.rs:593: Condvar::wait may return without a notification.
WSpuriousWake(w) ==
    /\ WAt(w, "cv_wait")
    /\ WGoto(w, "ready")
    /\ ev' = NoEv
    /\ UNCHANGED <<state, flagVars, taskVars, archVars, sigVars, envVars,
                   wlocVars, ctlVars, paused_ok>>
    /\ UNCHANGED netVars

\* lib.rs:432-438: kvm_vcpu_exec upgrades the Weak machine reference (and
\* returns NoMachineInterface when the machine is gone, which the owner of the
\* machine decides) and calls fd.run(); KVM returns
\* EINTR at once when immediate_exit is set, otherwise the thread executes
\* guest code.
WKvmRun(w) ==
    /\ WAt(w, "kvm_run")
    /\ \E upgraded \in BOOLEAN :
        IF ~upgraded
        THEN /\ WGoto(w, "failed")
             /\ ev' = MkExec(w, "none", "NoMachineInterface", "none")
             /\ sig_task' = Discard(sig_task, w, "failed")
             /\ sig_reset' = Discard(sig_reset, w, "failed")
             /\ UNCHANGED run_res
        ELSE /\ ev' = NoEv
             /\ UNCHANGED sigVars
             /\ IF immediate_exit
                THEN /\ WGoto(w, "run_ret")
                     /\ run_res' = [run_res EXCEPT ![w] = "EINTR"]
                ELSE /\ WGoto(w, "in_guest")
                     /\ UNCHANGED run_res
    /\ UNCHANGED <<state, flagVars, taskVars, archVars, envVars, ctlVars,
                   paused_ok>>
    /\ UNCHANGED netVars

\* lib.rs:438: fd.run() returns from guest execution.
WGuestExit(w, run) ==
    /\ WAt(w, "in_guest")
    /\ WGoto(w, "run_ret")
    /\ run_res' = [run_res EXCEPT ![w] = run]
    /\ ev' = NoEv
    /\ UNCHANGED <<state, flagVars, taskVars, archVars, sigVars, envVars,
                   ctlVars, paused_ok>>
    /\ UNCHANGED netVars

\* lib.rs:438-506 and 634-642: the match on the result of fd.run(), and the
\* loop's use of the value returned.
WDispatch(w) ==
    /\ WAt(w, "run_ret")
    /\ LET e == KvmVcpuExec(run_res[w]) IN
        /\ ev' = MkExec(w, run_res[w], e.ret, e.vm)
        /\ state' = IF e.stopped THEN "Stopped" ELSE state
        /\ immediate_exit' = IF e.clear THEN FALSE ELSE immediate_exit
        /\ WGoto(w, AfterExec(e.ret))
        /\ sig_task' = Discard(sig_task, w, AfterExec(e.ret))
        /\ sig_reset' = Discard(sig_reset, w, AfterExec(e.ret))
    /\ run_res' = [run_res EXCEPT ![w] = "none"]
    /\ UNCHANGED <<pause_signal, taskVars, archVars, envVars,
                   ctlVars, paused_ok>>
    /\ UNCHANGED netVars

\* lib.rs:650-656: Stopped is written and the condvar notified; the thread ends.
WExit(w) ==
    /\ WAt(w, "exit")
    /\ state' = "Stopped"
    /\ NotifyOne([wpc EXCEPT ![w] = "done"], cpc)
    /\ sig_task' = Discard(sig_task, w, "done")
    /\ sig_reset' = Discard(sig_reset, w, "done")
    /\ ev' = NoEv
    /\ UNCHANGED <<flagVars, taskVars, archVars, envVars, wlocVars, carg, nops,
                   paused_ok>>
    /\ UNCHANGED netVars

(***************************************************************************)
(* handle_signal (lib.rs:549-570), run on the thread the signal was sent   *)
(* to.  Before init_signals the signal has its default disposition, which  *)
(* terminates the process; a signal that arrives during fd.run() makes it  *)
(* return EINTR.                                                           *)
(***************************************************************************)
Interrupt(w) ==
    IF wpc[w] = "in_guest"
    THEN /\ WGoto(w, "run_ret")
         /\ run_res' = [run_res EXCEPT ![w] = "EINTR"]
    ELSE UNCHANGED <<wpc, run_res>>

\* lib.rs:551-558.
DeliverTask(w) ==
    /\ ~proc_killed
    /\ Alive(w)
    /\ sig_task[w] > 0
    /\ sig_task' = [sig_task EXCEPT ![w] = @ - 1]
    /\ ev' = NoEv
    /\ IF ~HandlerInstalled
       THEN /\ proc_killed' = TRUE
            /\ UNCHANGED <<flagVars, wpc, run_res>>
       ELSE /\ UNCHANGED proc_killed
            /\ Interrupt(w)
            /\ IF Tls(w)
               THEN immediate_exit' = TRUE /\ pause_signal' = TRUE
               ELSE UNCHANGED flagVars
    /\ UNCHANGED <<state, taskVars, archVars, sig_reset, 
                   ctlVars, paused_ok>>
    /\ UNCHANGED netVars

\* lib.rs:559-567: reset_vcpu runs on the thread's own vCPU.
DeliverReset(w) ==
    /\ ~proc_killed
    /\ Alive(w)
    /\ sig_reset[w] > 0
    /\ sig_reset' = [sig_reset EXCEPT ![w] = @ - 1]
    /\ IF ~HandlerInstalled
       THEN /\ proc_killed' = TRUE
            /\ ev' = NoEv
            /\ UNCHANGED <<wpc, run_res>>
       ELSE /\ UNCHANGED proc_killed
            /\ Interrupt(w)
            /\ ev' = IF Tls(w) THEN MkReset(w, wpc[w]) ELSE NoEv
    /\ reset_done' = IF HandlerInstalled /\ Tls(w) /\ BeforeBarrier(w)
                      THEN reset_done \cup {w} ELSE reset_done
    /\ UNCHANGED <<state, flagVars, taskVars, arch_cpu, boot_state, realized, sig_task,
                   ctlVars, paused_ok>>
    /\ UNCHANGED netVars

(***************************************************************************)
(* The vCPU engine.                                                        *)
(***************************************************************************)
NextCpu ==
    \/ \E c \in Ctls, b \in BootCfgs : RealizeCheck(c, b)
    \/ \E c \in Ctls : RealizeArch(c)
    \/ \E c \in Ctls : Resume(c)
    \/ \E c \in Ctls, p \in BOOLEAN : StartCheck(c, p)
    \/ \E c \in Ctls : StartSetSpawn(c)
    \/ \E c \in Ctls : StartLockTask(c)
    \/ \E c \in Ctls : StartJoinStore(c)
    \/ \E c \in Ctls : Reset(c)
    \/ \E c \in Ctls : Kick(c)
    \/ \E c \in Ctls : PauseBegin(c)
    \/ \E c \in Ctls : PauseSet(c)
    \/ \E c \in Ctls : PauseKill(c)
    \/ \E c \in Ctls : PauseSpin(c)
    \/ \E c \in Ctls : DestroyCheckRunning(c)
    \/ \E c \in Ctls : DestroySetStopping(c)
    \/ \E c \in Ctls : DestroyCheckStopped(c)
    \/ \E c \in Ctls : DestroySetNothing(c)
    \/ \E c \in Ctls : DestroyKickWait(c)
    \/ \E c \in Ctls : DestroyTimeout(c)
    \/ \E c \in Ctls : DestroyFinish(c)
    \/ \E w \in Workers : WInitLocal(w)
    \/ \E w \in Workers : WInitSignals(w)
    \/ \E w \in Workers : WReset(w)
    \/ \E w \in Workers : WBarrier(w)
    \/ \E w \in Workers : WReady(w)
    \/ \E w \in Workers : WSpuriousWake(w)
    \/ \E w \in Workers : WKvmRun(w)
    \/ \E w \in Workers, r \in RunOutcomes : WGuestExit(w, r)
    \/ \E w \in Workers : WDispatch(w)
    \/ \E w \in Workers : WExit(w)
    \/ \E w \in Workers : DeliverTask(w)
    \/ \E w \in Workers : DeliverReset(w)


(***************************************************************************)
(* The virtio-net device (src/virtio/src/net.rs).  All its event handlers  *)
(* run on one event-loop thread, so each handler invocation is one step.   *)
(***************************************************************************)
Queues == {"rx", "tx", "ctrl"}

\* A u32 bitmap (a value of vlan_map) is the set of the positions 0..31 of
\* its set bits: value & (1 << b) != 0, value |= 1 << b, value &= !(1 << b).
TestBit(v, b) == b \in v
SetBit(v, b) == v \cup {b}
ClearBit(v, b) == v \ {b}
\* u16::from_be_bytes and the little-endian layout of a u16 / u32 in guest memory.
U16FromBe(hi, lo) == hi * 256 + lo
U16FromLe(b) == b[1] + 256 * b[2]
U32FromLe(b) == b[1] + 256 * b[2] + 65536 * b[3] + 16777216 * b[4]

\* An Ethernet frame as the tap delivers it, after the virtio-net header:
\* destination, source, TPID / Ethertype, then the next four bytes (for an
\* 802.1Q frame the TCI and the inner Ethertype).
SrcMac == <<2, 0, 0, 0, 0, 9>>
Frame(dst, etype, tail) == dst \o SrcMac \o etype \o tail
Dst(frame) == SubSeq(frame, 1, MAC_ADDR_LEN)
EtherType(frame) == SubSeq(frame, 13, 14)
Tpid8021Q == <<129, 0>>
\* The VID (low 12 bits of the TCI) of an 802.1Q frame.
FrameVid(frame) == U16FromBe(frame[15], frame[16]) % 4096

Ipv4 == <<8, 0>>
BcastMac == <<255, 255, 255, 255, 255, 255>>
FramePlain == Frame(FIRST_DEFAULT_MAC, Ipv4, <<69, 0, 0, 40>>)
FrameVlan100 == Frame(FIRST_DEFAULT_MAC, Tpid8021Q, <<0, 100, 8, 0>>)
FrameVlan101 == Frame(FIRST_DEFAULT_MAC, Tpid8021Q, <<0, 101, 8, 0>>)
FrameDst8100 == Frame(<<129, 0, 94, 0, 0, 1>>, Ipv4, <<69, 0, 0, 40>>)
FrameBcast == Frame(BcastMac, Ipv4, <<69, 0, 0, 40>>)
Frames == {FramePlain, FrameVlan100, FrameVlan101, FrameDst8100, FrameBcast}

\* What one readv on the tap returns.
TapReads == {[kind |-> "frame", data |-> f] : f \in Frames}
            \cup {[kind |-> "EWOULDBLOCK", data |-> <<>>], [kind |-> "EIO", data |-> <<>>]}
\* What the writev calls of one send_packets return, in order: the call is
\* repeated after EINTR, so the last one is the only one that is not EINTR.
SendOutcomes == {<<"sent">>, <<"EWOULDBLOCK">>, <<"EIO">>,
                 <<"EINTR", "sent">>, <<"EINTR", "EWOULDBLOCK">>}
\* One handle_tx calls send_packets for fewer than queue_size chains: the
\* chain that reaches the limit is not sent.
TxWrites == [1..(QueueSize - 1) -> SendOutcomes]

\* Descriptor chains the guest posts on a data queue: a usable chain, one
\* without buffers on the side the device needs, one whose address does not
\* translate, and (RX) one too small for the virtio-net and Ethernet headers.
RxChains == {"ok", "empty", "unmapped", "short"}
TxChains == {"ok", "empty", "unmapped"}

\* A control request: the class and command of CtrlHdr, the bytes after the
\* header in the device-readable buffers, whether those bytes are in a second
\* descriptor of their own (split) or follow the header in the first one, and
\* whether the buffers have the sizes handle_ctrl requires (net.rs:501-511).
CtrlReqLayout(class, cmd, data, split) ==
    [class |-> class, cmd |-> cmd, data |-> data, split |-> split, valid |-> TRUE]
CtrlReq(class, cmd, data) == CtrlReqLayout(class, cmd, data, FALSE)
ReqPromiscOff == CtrlReq("RX", "PROMISC", <<0>>)
ReqPromiscBad == CtrlReq("RX", "PROMISC", <<2>>)
ReqVlanAdd100 == CtrlReq("VLAN", "ADD", <<100, 0>>)
ReqVlanDel100 == CtrlReq("VLAN", "DEL", <<100, 0>>)
ReqVlanAdd4096 == CtrlReq("VLAN", "ADD", <<0, 16>>)
ReqTruncated ==
    [class |-> "RX", cmd |-> "PROMISC", data |-> <<>>, split |-> FALSE, valid |-> FALSE]
CtrlReqs == {ReqPromiscOff, ReqPromiscBad, ReqVlanAdd100, ReqVlanDel100,
             ReqVlanAdd4096, ReqTruncated}

\* CtrlRxMode::default (net.rs:130-143) and CtrlInfo::new (net.rs:175-182).
CtrlRxModeDefault ==
    [promisc |-> TRUE, all_multi |-> FALSE, all_uni |-> FALSE,
     no_multi |-> FALSE, no_uni |-> FALSE, no_bcast |-> FALSE]
EmptyMap == [k \in {} |-> {}]
CtrlInfoNew ==
    [rx_mode |-> CtrlRxModeDefault,
     uni_mac_table |-> <<>>, uni_mac_of |-> FALSE,
     multi_mac_table |-> <<>>, multi_mac_of |-> FALSE,
     vlan_map |-> EmptyMap]

NoNev == [h |-> "none", res |-> "none", full |-> FALSE, filtered |-> <<>>, acks |-> <<>>]
MkNev(h, res, full, filtered, acks) ==
    [h |-> h, res |-> res, full |-> full, filtered |-> filtered, acks |-> acks]

\* VirtioNetConfig (net.rs:96-110) is packed: mac, then status,
\* max_virtqueue_pairs and mtu (u16 each), speed (u32) and duplex (u8), all
\* zero by default.
CONFIG_SPACE_LEN == 17
ConfigRestDefault == [i \in 1..(CONFIG_SPACE_LEN - MAC_ADDR_LEN) |-> 0]
\* The two feature bits write_config tests (net.rs:1509-1510).
MacGateFeatures == {"VIRTIO_NET_F_CTRL_MAC_ADDR", "VIRTIO_F_VERSION_1"}

NoCev == [op |-> "none", off |-> 0, data |-> <<>>, res |-> "none", out |-> <<>>]
MkCev(op, off, data, res, out) ==
    [op |-> op, off |-> off, data |-> data, res |-> res, out |-> out]

\* The device after activate (net.rs:1522-1609), with or without a tap.
InitNet ==
    /\ avail = [q \in Queues |-> <<>>]
    /\ used = [q \in Queues |-> <<>>]
    /\ posted = [q \in Queues |-> 0]
    /\ queue_evt = [q \in Queues |-> FALSE]
    /\ device_broken = FALSE
    /\ has_tap \in BOOLEAN
    /\ is_listening = TRUE
    /\ ctrl_info = CtrlInfoNew
    /\ config_mac = FIRST_DEFAULT_MAC
    /\ io_panicked = FALSE
    /\ nev = NoNev
    /\ config_rest = ConfigRestDefault
    /\ driver_features \in SUBSET MacGateFeatures
    /\ update_evt = FALSE
    /\ tap_chan = <<>>
    /\ cev = NoCev
    /\ notifier_ops = <<>>
    /\ tap_parked = FALSE

(***************************************************************************)
(* The control-queue commands (net.rs:184-358).                            *)
(***************************************************************************)
\* get_buf_and_discard (net.rs:420-438): the first n bytes of the data and the
\* rest, or an error when there are fewer than n.
GetBufAndDiscard(data, n) ==
    IF Len(data) < n
    THEN [ok |-> FALSE, buf |-> <<>>, rest |-> <<>>]
    ELSE [ok |-> TRUE, buf |-> SubSeq(data, 1, n), rest |-> SubSeq(data, n + 1, Len(data))]

\* iov_discard_front as get_buf_and_discard uses it (net.rs:433-437): the
\* bytes after the first n, or None when none are left.
IovDiscardFront(data, n) ==
    IF Len(data) > n
    THEN [some |-> TRUE, rest |-> SubSeq(data, n + 1, Len(data))]
    ELSE [some |-> FALSE, rest |-> <<>>]

CtrlResult(ack, ci, mac) == [ack |-> ack, ci |-> ci, mac |-> mac]

\* Every payload byte passes for an on/off value.
OnOffAny(status) == TRUE

\* net.rs:195: [0, 1].contains(&status).
OnOffValid(status) == status \in {0, 1}

\* handle_rx_mode (net.rs:184-216).
HandleRxMode(ci, mac, cmd, data) ==
    LET g == GetBufAndDiscard(data, 1)
        field == CASE cmd = "PROMISC"  -> "promisc"
                   [] cmd = "ALLMULTI" -> "all_multi"
                   [] cmd = "ALLUNI"   -> "all_uni"
                   [] cmd = "NOMULTI"  -> "no_multi"
                   [] cmd = "NOUNI"    -> "no_uni"
                   [] cmd = "NOBCAST"  -> "no_bcast"
                   [] OTHER            -> "none"
    IN  IF ~g.ok THEN CtrlResult("VIRTIO_NET_ERR", ci, mac)
        ELSE IF ~OnOffValid(g.buf[1]) THEN CtrlResult("VIRTIO_NET_ERR", ci, mac)
        ELSE IF field = "none" THEN CtrlResult("VIRTIO_NET_ERR", ci, mac)
        ELSE CtrlResult("VIRTIO_NET_OK",
                        [ci EXCEPT !.rx_mode = [@ EXCEPT ![field] = (g.buf[1] = 1)]], mac)

\* A capacity test that lets one entry too many through.
OverflowsLoose(entries, other_len) == entries > CTRL_MAC_TABLE_LEN - other_len + 1

\* net.rs:251: entries as usize > CTRL_MAC_TABLE_LEN - mac_table_len.
Overflows(entries, other_len) == entries > CTRL_MAC_TABLE_LEN - other_len

\* One pass of the loop of set_mac_table (net.rs:230-270) over the table
\* `table` with overflow flag `of`, the other table holding `other_len`
\* entries already counted against CTRL_MAC_TABLE_LEN.
MacTablePass(data, table, of, other_len) ==
    LET g == GetBufAndDiscard(data, 4)
        entries == U32FromLe(g.buf)
        size == entries * MAC_ADDR_LEN
        m == GetBufAndDiscard(g.rest, size)
    IN  IF ~g.ok THEN [err |-> TRUE, data |-> data, table |-> table, of |-> of]
        ELSE IF entries = 0 THEN [err |-> FALSE, data |-> g.rest, table |-> <<>>, of |-> of]
        ELSE IF size > Len(g.rest) THEN [err |-> TRUE, data |-> g.rest, table |-> table, of |-> of]
        ELSE IF Overflows(entries, other_len)
             THEN LET d == IovDiscardFront(g.rest, size)
                  IN  IF ~d.some
                      THEN [err |-> TRUE, data |-> g.rest, table |-> table, of |-> of]
                      ELSE [err |-> FALSE, data |-> d.rest, table |-> <<>>, of |-> TRUE]
        ELSE [err |-> FALSE, data |-> m.rest, of |-> of,
              table |-> [i \in 1..entries |->
                            SubSeq(m.buf, (i - 1) * MAC_ADDR_LEN + 1, i * MAC_ADDR_LEN)]]

\* set_mac_table (net.rs:218-272): the unicast pass, then the multicast pass;
\* an error in the second pass leaves what the first pass wrote.
SetMacTable(ci, data) ==
    LET u == MacTablePass(data, ci.uni_mac_table, ci.uni_mac_of, 0)
        ci1 == [ci EXCEPT !.uni_mac_table = u.table, !.uni_mac_of = u.of]
        m == MacTablePass(u.data, ci.multi_mac_table, ci.multi_mac_of, Len(u.table))
        ci2 == [ci1 EXCEPT !.multi_mac_table = m.table, !.multi_mac_of = m.of]
    IN  IF u.err THEN [err |-> TRUE, ci |-> ci]
        ELSE IF m.err THEN [err |-> TRUE, ci |-> ci1]
        ELSE [err |-> FALSE, ci |-> ci2]

\* handle_mac (net.rs:274-315).
HandleMac(ci, mac, cmd, data) ==
    CASE cmd = "ADDR_SET" ->
            LET g == GetBufAndDiscard(data, MAC_ADDR_LEN)
            IN  IF g.ok THEN CtrlResult("VIRTIO_NET_OK", ci, g.buf)
                ELSE CtrlResult("VIRTIO_NET_ERR", ci, mac)
      [] cmd = "TABLE_SET" ->
            LET t == SetMacTable(ci, data)
            IN  CtrlResult(IF t.err THEN "VIRTIO_NET_ERR" ELSE "VIRTIO_NET_OK", t.ci, mac)
      [] OTHER -> CtrlResult("VIRTIO_NET_ERR", ci, mac)

\* self.vlan_map.get(&key), with 0 for a missing key.
VlanValue(map, key) == IF key \in DOMAIN map THEN map[key] ELSE {}

\* A VID test that lets CTRL_MAX_VLAN itself through.
VlanInRangeInclusive(vid) == vid <= CTRL_MAX_VLAN

\* net.rs:335: the negation of vid >= CTRL_MAX_VLAN.
VlanInRange(vid) == vid < CTRL_MAX_VLAN

\* handle_vlan_table (net.rs:317-358).
HandleVlanTable(ci, mac, cmd, data) ==
    LET g == GetBufAndDiscard(data, 2)
        vid == U16FromLe(g.buf)
        key == vid \div 32
        bit == vid % 32
        map == ci.vlan_map
    IN  IF ~g.ok THEN CtrlResult("VIRTIO_NET_ERR", ci, mac)
        ELSE IF ~VlanInRange(vid) THEN CtrlResult("VIRTIO_NET_ERR", ci, mac)
        ELSE CASE cmd = "ADD" ->
                    CtrlResult("VIRTIO_NET_OK",
                        [ci EXCEPT !.vlan_map =
                            [k \in DOMAIN map \cup {key} |->
                                IF k = key THEN SetBit(VlanValue(map, key), bit) ELSE map[k]]],
                        mac)
               [] cmd = "DEL" ->
                    CtrlResult("VIRTIO_NET_OK",
                        [ci EXCEPT !.vlan_map =
                            [k \in DOMAIN map |->
                                IF k = key THEN ClearBit(map[k], bit) ELSE map[k]]],
                        mac)
               [] OTHER -> CtrlResult("VIRTIO_NET_ERR", ci, mac)

\* The VIRTIO_NET_CTRL_MQ arm of handle_ctrl (net.rs:549-569): the command is
\* compared with VQ_PAIRS_SET, and the pairs value is read and range-checked
\* only when the chain has a second device-readable descriptor.
HandleMq(req) ==
    LET cmd_ack == IF req.cmd = "VQ_PAIRS_SET" THEN "VIRTIO_NET_OK" ELSE "VIRTIO_NET_ERR"
        pairs == U16FromLe(req.data)
    IN  IF req.split /\ Len(req.data) >= 2
        THEN IF pairs \in VIRTIO_NET_CTRL_MQ_VQ_PAIRS_MIN..VIRTIO_NET_CTRL_MQ_VQ_PAIRS_MAX
             THEN cmd_ack
             ELSE "VIRTIO_NET_ERR"
        ELSE cmd_ack

\* A device that accepts requests of classes it does not know.
UnknownClassAccepted == "VIRTIO_NET_OK"

\* net.rs:570-576: the ack of a request of an unsupported class.
UnknownClassAck == "VIRTIO_NET_ERR"

\* The match on ctrl_hdr.class in handle_ctrl (net.rs:522-577).
CtrlDispatch(ci, mac, req) ==
    CASE req.class = "RX"   -> HandleRxMode(ci, mac, req.cmd, req.data)
      [] req.class = "MAC"  -> HandleMac(ci, mac, req.cmd, req.data)
      [] req.class = "VLAN" -> HandleVlanTable(ci, mac, req.cmd, req.data)
      [] req.class = "MQ"   -> CtrlResult(HandleMq(req), ci, mac)
      [] OTHER -> CtrlResult(UnknownClassAck, ci, mac)

(***************************************************************************)
(* filter_packets (net.rs:360-417) on the buffer handle_rx passes: "drop"  *)
(* is a return of true, "accept" a return of false, "panic" an index past  *)
(* the end of the slice.                                                   *)
(***************************************************************************)
InTable(table, dst) == \E i \in DOMAIN table : table[i] = dst

\* net.rs:383-416: the decision on the destination address.
FilterMac(ci, mac, buf) ==
    LET dst == SubSeq(buf, 1, MAC_ADDR_LEN)
        m == ci.rx_mode
    IN  IF buf[1] % 2 = 1
        THEN IF dst = BcastMac THEN (IF m.no_bcast THEN "drop" ELSE "accept")
             ELSE IF m.no_multi THEN "drop"
             ELSE IF m.all_multi \/ ci.multi_mac_of THEN "accept"
             ELSE IF InTable(ci.multi_mac_table, dst) THEN "accept"
             ELSE "drop"
        ELSE IF m.no_uni THEN "drop"
             ELSE IF m.all_uni \/ ci.uni_mac_of \/ dst = mac THEN "accept"
             ELSE IF InTable(ci.uni_mac_table, dst) THEN "accept"
             ELSE "drop"

\* net.rs:360-417.  The TPID test reads the first two bytes of the buffer and
\* the VID is read at offsets 14 and 15.
FilterPackets(ci, mac, buf) ==
    IF ci.rx_mode.promisc THEN "accept"
    ELSE IF SubSeq(buf, 1, 2) = Tpid8021Q
         THEN IF Len(buf) < 16 THEN "panic"
              ELSE LET vid == U16FromBe(buf[15], buf[16])
                   IN  IF ~TestBit(VlanValue(ci.vlan_map, vid \div 32), vid % 32)
                       THEN "drop"
                       ELSE FilterMac(ci, mac, buf)
         ELSE FilterMac(ci, mac, buf)

(***************************************************************************)
(* The queue handlers.  Each returns what it leaves of the avail ring, the *)
(* used ring, and how it ended.                                            *)
(***************************************************************************)
IoResult(av, us, evt, full, res, flt) ==
    [avail |-> av, used |-> us, evt |-> evt, full |-> full, res |-> res, filtered |-> flt]

\* handle_rx (net.rs:742-839) from iteration n + 1 of its loop, reads[i]
\* being what the i-th readv on the tap returns.
RECURSIVE HandleRx(_, _, _, _, _)
HandleRx(av, us, n, reads, flt) ==
    IF ~has_tap THEN IoResult(av, us, FALSE, FALSE, "Ok", flt)
    ELSE IF av = <<>> THEN IoResult(av, us, FALSE, TRUE, "Ok", flt)
    ELSE IF n + 1 > QueueSize THEN IoResult(av, us, TRUE, FALSE, "Ok", flt)
    ELSE LET elem == Head(av)
             rd == reads[n + 1]
             verdict == FilterPackets(ctrl_info, config_mac,
                                      SubSeq(rd.data, 1, ETHERNET_HDR_LENGTH))
             seen == Append(flt, [frame |-> rd.data, verdict |-> verdict])
         IN  IF elem.req \in {"empty", "unmapped"}
             THEN IoResult(Tail(av), us, FALSE, FALSE, "Err", flt)
             ELSE IF rd.kind # "frame"
             THEN IoResult(av, us, FALSE, FALSE, "Ok", flt)
             ELSE IF elem.req = "short"
             THEN IoResult(Tail(av), us, FALSE, FALSE, "Err", flt)
             ELSE IF verdict = "panic"
             THEN IoResult(Tail(av), us, FALSE, FALSE, "panic", seen)
             ELSE IF verdict = "drop"
             THEN HandleRx(av, us, n + 1, reads, seen)
             ELSE HandleRx(Tail(av), Append(us, elem.id), n + 1, reads, seen)

\* A send_packets that gives up on EINTR as it does on EWOULDBLOCK.
SendPacketsNoRetry(rets) ==
    IF Head(rets) \in {"EINTR", "EWOULDBLOCK"} THEN -1 ELSE 0

\* send_packets (net.rs:841-863): writev is called again after EINTR; -1 when
\* it fails with EWOULDBLOCK, 0 when it wrote the packet and when it failed
\* with any other error, which is only logged.
RECURSIVE SendPackets(_)
SendPackets(rets) ==
    IF Head(rets) = "EINTR" THEN SendPackets(Tail(rets))
    ELSE IF Head(rets) = "EWOULDBLOCK" THEN -1
    ELSE 0

\* handle_tx (net.rs:865-929) from iteration n + 1 of its loop, outs[i] being
\* what the writev calls of send_packets return for the i-th chain.
RECURSIVE HandleTx(_, _, _, _)
HandleTx(av, us, n, outs) ==
    IF av = <<>> THEN IoResult(av, us, FALSE, FALSE, "Ok", <<>>)
    ELSE LET elem == Head(av)
         IN  IF elem.req = "empty"
             THEN IoResult(Tail(av), us, FALSE, FALSE, "Err", <<>>)
             ELSE IF n + 1 >= QueueSize
             THEN IoResult(Tail(av), us, TRUE, FALSE, "Ok", <<>>)
             ELSE IF elem.req = "unmapped"
             THEN IoResult(Tail(av), us, FALSE, FALSE, "Err", <<>>)
             ELSE IF has_tap /\ SendPackets(outs[n + 1]) = -1
             THEN IoResult(av, us, TRUE, FALSE, "Ok", <<>>)
             ELSE HandleTx(Tail(av), Append(us, elem.id), n + 1, outs)

\* net.rs:588: mem::size_of_val(&ack), the length handle_ctrl gives add_used.
ACK_LEN == 1

\* handle_ctrl (net.rs:488-606).  acks lists, for each chain given to the used
\* ring, the status byte written to its first device-writable buffer and the
\* used length.
RECURSIVE HandleCtrl(_, _, _, _, _)
HandleCtrl(av, us, ci, mac, acks) ==
    IF av = <<>>
    THEN [avail |-> av, used |-> us, ci |-> ci, mac |-> mac, acks |-> acks, res |-> "Ok"]
    ELSE LET elem == Head(av)
             d == CtrlDispatch(ci, mac, elem.req)
         IN  IF ~elem.req.valid
             THEN [avail |-> Tail(av), used |-> us, ci |-> ci, mac |-> mac,
                   acks |-> acks, res |-> "Err"]
             ELSE HandleCtrl(Tail(av), Append(us, elem.id), d.ci, d.mac,
                             Append(acks, [id |-> elem.id, ack |-> d.ack, len |-> ACK_LEN]))

(***************************************************************************)
(* The guest and the event notifiers (net.rs:609-640, 993-1119).           *)
(***************************************************************************)
TotalPosted == posted["rx"] + posted["tx"] + posted["ctrl"]

\* Notifiers that never see the broken flag.
IsBrokenNever(flag) == FALSE

\* A notifier that sees this flag set returns before doing anything else
\* (net.rs:618, 1000-1007, 1022, 1053, 1079).
IsBroken(flag) == flag

\* The guest makes a chain available on queue q and kicks the queue.
GuestPost(q, req) ==
    /\ TotalPosted < MaxChains
    /\ Len(avail[q]) < QueueSize
    /\ posted' = [posted EXCEPT ![q] = @ + 1]
    /\ avail' = [avail EXCEPT ![q] = Append(@, [id |-> posted[q] + 1, req |-> req])]
    /\ queue_evt' = [queue_evt EXCEPT ![q] = TRUE]
    /\ nev' = NoNev
    /\ notifier_ops' = <<>>
    /\ UNCHANGED <<used, device_broken, has_tap, is_listening, ctrl_info,
                   config_mac, io_panicked, tap_parked>>
    /\ UNCHANGED <<cpuVars, cfgVars, sideVars>>

PostRx == \E r \in RxChains : GuestPost("rx", r)
PostTx == \E r \in TxChains : GuestPost("tx", r)
PostCtrl == \E r \in CtrlReqs : GuestPost("ctrl", r)

\* The control queue's notifier (net.rs:615-630).
CtrlNotifier ==
    /\ ~io_panicked
    /\ queue_evt["ctrl"]
    /\ queue_evt' = [queue_evt EXCEPT !["ctrl"] = FALSE]
    /\ IF IsBroken(device_broken)
       THEN /\ nev' = MkNev("ctrl", "broken", FALSE, <<>>, <<>>)
            /\ UNCHANGED <<avail, used, device_broken, ctrl_info, config_mac>>
       ELSE LET r == HandleCtrl(avail["ctrl"], used["ctrl"], ctrl_info, config_mac, <<>>)
            IN  /\ avail' = [avail EXCEPT !["ctrl"] = r.avail]
                /\ used' = [used EXCEPT !["ctrl"] = r.used]
                /\ ctrl_info' = r.ci
                /\ config_mac' = r.mac
                /\ device_broken' = (r.res = "Err")
                /\ nev' = MkNev("ctrl", r.res, FALSE, <<>>, r.acks)
    /\ notifier_ops' = <<>>
    /\ UNCHANGED <<posted, has_tap, is_listening, io_panicked, tap_parked>>
    /\ UNCHANGED <<cpuVars, cfgVars, sideVars>>

\* The RX queue's notifier (net.rs:1019-1039): it resumes the tap when the
\* handler is not listening to it, and does not call handle_rx.
RxCallback ==
    /\ ~io_panicked
    /\ queue_evt["rx"]
    /\ queue_evt' = [queue_evt EXCEPT !["rx"] = FALSE]
    /\ IF ~IsBroken(device_broken) /\ has_tap /\ ~is_listening
       THEN /\ is_listening' = TRUE
            /\ tap_parked' = FALSE
            /\ notifier_ops' = <<"Resume">>
       ELSE /\ notifier_ops' = <<>>
            /\ UNCHANGED <<is_listening, tap_parked>>
    /\ nev' = MkNev("rxq", IF IsBroken(device_broken) THEN "broken" ELSE "Ok",
                    FALSE, <<>>, <<>>)
    /\ UNCHANGED <<avail, used, posted, device_broken, has_tap, ctrl_info,
                   config_mac, io_panicked>>
    /\ UNCHANGED <<cpuVars, cfgVars, macVars, topoVars, barVars, updVars>>

\* The RX queue's notifier on a device whose tap is not looked at.
RxNotifier == RxCallback /\ UNCHANGED tapVars

\* The TX queue's notifier (net.rs:1050-1065).
TxNotifier ==
    /\ ~io_panicked
    /\ queue_evt["tx"]
    /\ IF IsBroken(device_broken)
       THEN /\ queue_evt' = [queue_evt EXCEPT !["tx"] = FALSE]
            /\ nev' = MkNev("tx", "broken", FALSE, <<>>, <<>>)
            /\ UNCHANGED <<avail, used, device_broken>>
       ELSE \E outs \in TxWrites :
            LET r == HandleTx(avail["tx"], used["tx"], 0, outs)
            IN  /\ avail' = [avail EXCEPT !["tx"] = r.avail]
                /\ used' = [used EXCEPT !["tx"] = r.used]
                /\ queue_evt' = [queue_evt EXCEPT !["tx"] = r.evt]
                /\ device_broken' = (r.res = "Err")
                /\ nev' = MkNev("tx", r.res, FALSE, <<>>, <<>>)
    /\ notifier_ops' = <<>>
    /\ UNCHANGED <<posted, has_tap, is_listening, ctrl_info, config_mac, io_panicked,
                   tap_parked>>
    /\ UNCHANGED <<cpuVars, cfgVars, sideVars>>

\* The tap's notifier (net.rs:1077-1107), registered when there is a tap and
\* not run while it is parked.  RxVirtio.queue_full is set by handle_rx and
\* cleared here before the notifier returns.
TapCallback(reads) ==
    /\ ~io_panicked
    /\ has_tap
    /\ ~tap_parked
    /\ IF IsBroken(device_broken)
       THEN /\ nev' = MkNev("rx", "broken", FALSE, <<>>, <<>>)
            /\ notifier_ops' = <<>>
            /\ UNCHANGED <<avail, used, queue_evt, device_broken, is_listening,
                           io_panicked, tap_parked>>
       ELSE LET r == HandleRx(avail["rx"], used["rx"], 0, reads, <<>>)
            IN  /\ avail' = [avail EXCEPT !["rx"] = r.avail]
                /\ used' = [used EXCEPT !["rx"] = r.used]
                /\ queue_evt' = [queue_evt EXCEPT !["rx"] = @ \/ r.evt]
                /\ device_broken' = (r.res = "Err")
                /\ io_panicked' = (r.res = "panic")
                /\ IF r.res = "Ok" /\ r.full
                   THEN /\ is_listening' = FALSE
                        /\ tap_parked' = TRUE
                        /\ notifier_ops' = <<"Park">>
                   ELSE /\ notifier_ops' = <<>>
                        /\ UNCHANGED <<is_listening, tap_parked>>
                /\ nev' = MkNev("rx", r.res, r.full, r.filtered, <<>>)
    /\ UNCHANGED <<posted, has_tap, ctrl_info, config_mac>>
    /\ UNCHANGED <<cpuVars, cfgVars, macVars, topoVars, barVars, updVars>>

\* The tap's notifier run with what the readv calls return given from outside.
TapNotifierWith(reads) == TapCallback(reads) /\ UNCHANGED tapVars

TapNotifier == \E reads \in [1..QueueSize -> TapReads] : TapNotifierWith(reads)

NextNet ==
    \/ PostRx
    \/ PostTx
    \/ PostCtrl
    \/ CtrlNotifier
    \/ RxNotifier
    \/ TxNotifier
    \/ TapNotifier

(***************************************************************************)
(* The control plane on its own: a driver that issues one control command  *)
(* at a time and waits for its ack, and a tap that delivers one frame per  *)
(* wake-up.                                                                *)
(***************************************************************************)
\* The little-endian bytes of a u16 / u32 in guest memory.
U16Le(n) == <<n % 256, (n \div 256) % 256>>
U32Le(n) == <<n % 256, (n \div 256) % 256, (n \div 65536) % 256, (n \div 16777216) % 256>>

\* Unicast and multicast station addresses.
UniMac(i) == <<2, 0, 0, 0, 0, i>>
MultiMac(i) == <<1, 0, 94, 0, 0, i>>
RECURSIVE Flatten(_)
Flatten(macs) == IF macs = <<>> THEN <<>> ELSE Head(macs) \o Flatten(Tail(macs))

\* The payload of VIRTIO_NET_CTRL_MAC_TABLE_SET: u32 count and addresses of
\* the unicast table, then of the multicast table.
TableSetData(uni, multi) ==
    U32Le(Len(uni)) \o Flatten(uni) \o U32Le(Len(multi)) \o Flatten(multi)
ReqTableSet(uni, multi) == CtrlReq("MAC", "TABLE_SET", TableSetData(uni, multi))

RxCmds == {"PROMISC", "ALLMULTI", "ALLUNI", "NOMULTI", "NOUNI", "NOBCAST"}
RxReqs == {CtrlReq("RX", c, <<v>>) : c \in RxCmds, v \in {0, 1}}
             \cup {ReqPromiscBad, CtrlReq("RX", "UNKNOWN", <<1>>)}

ReqVlanAdd101 == CtrlReq("VLAN", "ADD", U16Le(101))
ReqVlanAdd4095 == CtrlReq("VLAN", "ADD", U16Le(4095))
ReqVlanUnknown == CtrlReq("VLAN", "UNKNOWN", U16Le(100))
VlanReqs == {ReqVlanAdd100, ReqVlanAdd101, ReqVlanDel100, ReqVlanAdd4095,
             ReqVlanAdd4096, ReqVlanUnknown}

\* TABLE_SET requests: one more unicast entry than the table holds; tables
\* that fit; empty tables; a full multicast table; a full unicast table
\* whose request ends before the multicast count; a multicast table that
\* does not fit beside the unicast one.
ReqTableUniOver == ReqTableSet([i \in 1..(CTRL_MAC_TABLE_LEN + 1) |-> UniMac(i)], <<>>)
ReqTableFits == ReqTableSet(<<UniMac(1)>>, <<MultiMac(1)>>)
ReqTableEmpty == ReqTableSet(<<>>, <<>>)
ReqTableMultiFull == ReqTableSet(<<>>, [i \in 1..CTRL_MAC_TABLE_LEN |-> MultiMac(i)])
ReqTableUniFullCut ==
    CtrlReq("MAC", "TABLE_SET",
            U32Le(CTRL_MAC_TABLE_LEN) \o Flatten([i \in 1..CTRL_MAC_TABLE_LEN |-> UniMac(i)]))
ReqTableMultiOver ==
    ReqTableSet(<<UniMac(1)>>, [i \in 1..CTRL_MAC_TABLE_LEN |-> MultiMac(i)])
\* The same request with one more byte in its last buffer.
ReqTableMultiOverPad ==
    CtrlReq("MAC", "TABLE_SET",
            TableSetData(<<UniMac(1)>>, [i \in 1..CTRL_MAC_TABLE_LEN |-> MultiMac(i)]) \o <<0>>)
MacReqs == {ReqTableUniOver, ReqTableFits, ReqTableEmpty, ReqTableMultiFull,
            ReqTableUniFullCut, ReqTableMultiOver, ReqTableMultiOverPad,
            CtrlReq("MAC", "ADDR_SET", UniMac(1)), CtrlReq("MAC", "UNKNOWN", <<>>)}

\* VQ_PAIRS_SET with the pairs value after the header in one descriptor, or
\* in a second descriptor of its own.
MqPairs == {0, 1, 32, 33}
MqReqs == {CtrlReqLayout("MQ", "VQ_PAIRS_SET", U16Le(n), sp) : n \in MqPairs, sp \in BOOLEAN}
            \cup {CtrlReqLayout("MQ", "UNKNOWN", U16Le(1), TRUE)}

ReqUnknownClass == CtrlReq("UNKNOWN", "UNKNOWN", <<>>)
CtrlReqsAll == RxReqs \cup VlanReqs \cup MacReqs \cup MqReqs
                 \cup {ReqUnknownClass, ReqTruncated}

\* The frames the tap delivers to this device.
FrameUni1 == Frame(UniMac(1), Ipv4, <<69, 0, 0, 40>>)
FrameUni2 == Frame(UniMac(2), Ipv4, <<69, 0, 0, 40>>)
FrameMulti1 == Frame(MultiMac(1), Ipv4, <<69, 0, 0, 40>>)
FrameMulti2 == Frame(MultiMac(2), Ipv4, <<69, 0, 0, 40>>)
FramesCtrl == {FramePlain, FrameUni1, FrameUni2, FrameMulti1, FrameMulti2,
               FrameBcast, FrameDst8100, FrameVlan100}

\* The driver sends a control command when the previous one has been acked.
PostCtrlOne ==
    /\ avail["ctrl"] = <<>>
    /\ \E r \in CtrlReqsAll : GuestPost("ctrl", r)

\* The driver refills the RX queue with a usable buffer when it is empty.
PostRxOk ==
    /\ avail["rx"] = <<>>
    /\ GuestPost("rx", "ok")

\* The tap becomes readable with one frame queued: the first readv returns
\* the frame and the next would block.
TapOne ==
    \E f \in FramesCtrl :
        TapNotifierWith([i \in 1..QueueSize |->
                            IF i = 1 THEN [kind |-> "frame", data |-> f]
                            ELSE [kind |-> "EWOULDBLOCK", data |-> <<>>]])

NextCtrl ==
    \/ PostCtrlOne
    \/ CtrlNotifier
    \/ PostRxOk
    \/ TapOne

(***************************************************************************)
(* The control queue with several requests queued before the device is     *)
(* kicked: requests of an unknown class and of an unknown command of each  *)
(* class, next to requests the device accepts and one it cannot parse.     *)
(***************************************************************************)
ReqRxUnknown == CtrlReq("RX", "UNKNOWN", <<1>>)
ReqMacUnknown == CtrlReq("MAC", "UNKNOWN", <<>>)
ReqMqUnknown == CtrlReqLayout("MQ", "UNKNOWN", U16Le(1), TRUE)
CtrlReqsQueued == {ReqPromiscOff, ReqVlanAdd100, ReqUnknownClass, ReqRxUnknown,
                   ReqMacUnknown, ReqVlanUnknown, ReqMqUnknown, ReqTruncated}

PostCtrlQueued == \E r \in CtrlReqsQueued : GuestPost("ctrl", r)

NextQueued ==
    \/ PostCtrlQueued
    \/ CtrlNotifier

(***************************************************************************)
(* The device with its configuration updated while it runs: every notifier *)
(* of the I/O thread, and update_config on the main thread.                *)
(***************************************************************************)
\* Net::update_config (net.rs:1611-1661) with no MAC in the new
\* configuration: realize leaves the config space as it is (net.rs:1424-1427),
\* the tap it opened, or None, is sent to the handler and update_evt is
\* written.
UpdateConfig ==
    /\ Len(tap_chan) < MaxUpdates
    /\ \E t \in BOOLEAN : tap_chan' = Append(tap_chan, t)
    /\ update_evt' = TRUE
    /\ nev' = NoNev
    /\ notifier_ops' = <<>>
    /\ UNCHANGED <<avail, used, posted, queue_evt, device_broken, has_tap,
                   is_listening, ctrl_info, config_mac, io_panicked, tap_parked>>
    /\ UNCHANGED <<cpuVars, config_rest, driver_features, cev, sideVars>>

\* The notifier of update_evt (net.rs:998-1009) and update_evt_handler
\* (net.rs:931-959): the handler takes the tap from the channel, and the
\* notifiers of the handler are deleted and registered again.
UpdateEvtNotifier ==
    /\ ~io_panicked
    /\ update_evt
    /\ update_evt' = FALSE
    /\ IF IsBroken(device_broken)
       THEN /\ nev' = MkNev("update", "broken", FALSE, <<>>, <<>>)
            /\ notifier_ops' = <<>>
            /\ UNCHANGED <<has_tap, tap_chan, tap_parked>>
       ELSE /\ tap_chan # <<>>
            /\ has_tap' = Head(tap_chan)
            /\ tap_chan' = Tail(tap_chan)
            /\ tap_parked' = FALSE
            /\ notifier_ops' = <<"Delete", "AddShared">>
            /\ nev' = MkNev("update", "Ok", FALSE, <<>>, <<>>)
    /\ UNCHANGED <<avail, used, posted, queue_evt, device_broken, is_listening,
                   ctrl_info, config_mac, io_panicked>>
    /\ UNCHANGED <<cpuVars, config_rest, driver_features, cev, sideVars>>

\* What the guest posts and the tap returns here: a control request the
\* device accepts and one it cannot parse, a usable data chain and one without
\* buffers, a frame and an empty tap.
CtrlReqsDev == {ReqPromiscOff, ReqTruncated}
DataChainsDev == {"ok", "empty"}
TapReadsDev == {[kind |-> "frame", data |-> FramePlain],
                [kind |-> "EWOULDBLOCK", data |-> <<>>]}

PostCtrlDev == \E r \in CtrlReqsDev : GuestPost("ctrl", r)
PostRxDev == \E r \in DataChainsDev : GuestPost("rx", r)
PostTxDev == \E r \in DataChainsDev : GuestPost("tx", r)
TapDev == \E reads \in [1..QueueSize -> TapReadsDev] : TapNotifierWith(reads)

NextDev ==
    \/ PostCtrlDev
    \/ PostRxDev
    \/ PostTxDev
    \/ CtrlNotifier
    \/ RxNotifier
    \/ TxNotifier
    \/ TapDev
    \/ UpdateConfig
    \/ UpdateEvtNotifier

(***************************************************************************)
(* The config space as the transport reads and writes it (net.rs:1476-     *)
(* 1518).  Offsets are zero-based as in the code.                          *)
(***************************************************************************)
\* config_space.as_bytes().
ConfigSpace == config_mac \o config_rest

\* config_slice[offset..offset + len].
ConfigSlice(cfg, off, len) == SubSeq(cfg, off + 1, off + len)

\* copy_from_slice(data) into config_slice[offset..offset + data.len()].
ConfigCopy(cfg, off, data) ==
    [i \in 1..Len(cfg) |->
        IF i > off /\ i <= off + Len(data) THEN data[i - off] ELSE cfg[i]]

\* A device that takes config-space writes of the MAC whatever was negotiated.
MacWritableAlways(features) == TRUE

\* net.rs:1510-1511: the driver negotiated neither VIRTIO_NET_F_CTRL_MAC_ADDR
\* nor VIRTIO_F_VERSION_1.
MacWritable(features) ==
    /\ "VIRTIO_NET_F_CTRL_MAC_ADDR" \notin features
    /\ "VIRTIO_F_VERSION_1" \notin features

\* A range check that takes the limit itself for out of range.
InRangeStrict(off, len, limit) == off + len <= MaxOffset /\ off + len < limit

\* net.rs:1480-1483, 1499-1502: offset.checked_add(len).filter(|&end| end <=
\* limit).is_some().
InRange(off, len, limit) == off + len <= MaxOffset /\ off + len <= limit

\* The config-space accesses the transport makes.  Writes: short buffers of
\* any content at the offsets of the MAC and just past it, one byte near the
\* end of the config space and at the largest offset, and zero-filled
\* buffers as long as the config space and a little shorter.  Reads: short
\* ones over the MAC, and of one and of ten bytes around the end of the
\* config space and at the largest offset.
CfgBytes == {0, 255}
Zeros(n) == [i \in 1..n |-> 0]
CfgData == UNION {[1..n -> CfgBytes] : n \in 0..MaxCfgLen}
EndOffsets == (CONFIG_SPACE_LEN - 4)..(CONFIG_SPACE_LEN + 1) \cup {MaxOffset}
WriteCalls ==
    {<<off, data>> : off \in 0..(MAC_ADDR_LEN + 1), data \in CfgData}
        \cup {<<off, Zeros(1)>> : off \in EndOffsets}
        \cup {<<0, Zeros(CONFIG_SPACE_LEN - 3)>>, <<0, Zeros(CONFIG_SPACE_LEN)>>}
ReadCalls ==
    {<<off, len>> : off \in 0..MAC_ADDR_LEN, len \in 0..MaxCfgLen}
        \cup {<<off, len>> : off \in EndOffsets, len \in {1, 10}}
        \cup {<<0, 10>>}

\* Net::write_config (net.rs:1493-1518).
WriteConfig ==
    \E call \in WriteCalls :
        LET off == call[1]
            data == call[2]
            cfg == ConfigSpace
            new == IF /\ MacWritable(driver_features)
                      /\ data # ConfigSlice(cfg, off, Len(data))
                   THEN ConfigCopy(cfg, off, data)
                   ELSE cfg
        IN  /\ IF ~InRange(off, Len(data), MAC_ADDR_LEN)
               THEN /\ cev' = MkCev("write", off, data, "DevConfigOverflow", <<>>)
                    /\ UNCHANGED <<config_mac, config_rest>>
               ELSE /\ cev' = MkCev("write", off, data, "Ok", <<>>)
                    /\ config_mac' = SubSeq(new, 1, MAC_ADDR_LEN)
                    /\ config_rest' = SubSeq(new, MAC_ADDR_LEN + 1, CONFIG_SPACE_LEN)
            /\ UNCHANGED <<avail, used, posted, queue_evt, device_broken, has_tap,
                           is_listening, ctrl_info, io_panicked, nev, driver_features,
                           update_evt, tap_chan, notifier_ops, tap_parked>>
            /\ UNCHANGED <<cpuVars, sideVars>>

\* Net::read_config (net.rs:1476-1490).
ReadConfig ==
    \E call \in ReadCalls :
        LET off == call[1]
            len == call[2]
        IN
        /\ IF ~InRange(off, len, CONFIG_SPACE_LEN)
           THEN cev' = MkCev("read", off, Zeros(len), "DevConfigOverflow", <<>>)
           ELSE cev' = MkCev("read", off, Zeros(len), "Ok",
                             ConfigSlice(ConfigSpace, off, len))
        /\ UNCHANGED <<avail, used, posted, queue_evt, device_broken, has_tap,
                       is_listening, ctrl_info, config_mac, io_panicked, nev,
                       config_rest, driver_features, update_evt, tap_chan,
                       notifier_ops, tap_parked>>
        /\ UNCHANGED <<cpuVars, sideVars>>

NextCfg ==
    \/ WriteConfig
    \/ ReadConfig

(***************************************************************************)
(* The default-MAC allocator (net.rs:90-91, 1207-1236) and the devices     *)
(* that take their address from it (net.rs:1415-1439).                     *)
(***************************************************************************)
MAX_MAC_ADDR_NUM == 255
\* The loop range FIRST_DEFAULT_MAC[MAC_ADDR_LEN - 1]..MAX_MAC_ADDR_NUM.
MacSlots == FIRST_DEFAULT_MAC[MAC_ADDR_LEN]..(MAX_MAC_ADDR_NUM - 1)
MacPrefix(mac) == SubSeq(mac, 1, MAC_ADDR_LEN - 1)
DefaultMac(i) == MacPrefix(FIRST_DEFAULT_MAC) \o <<i>>

\* mark_mac_table (net.rs:1207-1222).
MarkMacTable(table, mac, is_used) ==
    IF MacPrefix(mac) # MacPrefix(FIRST_DEFAULT_MAC) THEN table
    ELSE IF mac[MAC_ADDR_LEN] \in MacSlots
         THEN [table EXCEPT ![mac[MAC_ADDR_LEN]] = @ + (IF is_used THEN 1 ELSE -1)]
         ELSE table

\* get_default_mac_addr (net.rs:1225-1236).
GetDefaultMacAddr(table) ==
    LET free == {i \in MacSlots : table[i] = 0}
        first == CHOOSE i \in free : \A j \in free : i <= j
    IN  IF free = {} THEN [ok |-> FALSE, mac |-> Zeros(MAC_ADDR_LEN), table |-> table]
        ELSE [ok |-> TRUE, mac |-> DefaultMac(first),
              table |-> [table EXCEPT ![first] = 1]]

\* A device slot: whether a Net lives in it, net_cfg.mac as the bytes its
\* string spells (<<>> for None), config_space.mac, the address the device
\* had when its first realize returned, and how often realize has run.
NoUserMac == <<>>
NetAbsent == [present |-> FALSE, user |-> NoUserMac, mac |-> Zeros(MAC_ADDR_LEN),
              given |-> Zeros(MAC_ADDR_LEN), realized |-> 0]
NetNew(user) == [present |-> TRUE, user |-> user, mac |-> Zeros(MAC_ADDR_LEN),
                 given |-> Zeros(MAC_ADDR_LEN), realized |-> 1]

\* The MAC part of Net::realize (net.rs:1415-1427).
RealizeMac(net, table) ==
    IF net.user # NoUserMac
    THEN [ok |-> TRUE, mac |-> net.user, table |-> MarkMacTable(table, net.user, TRUE)]
    ELSE IF net.mac = Zeros(MAC_ADDR_LEN)
    THEN GetDefaultMacAddr(table)
    ELSE [ok |-> TRUE, mac |-> net.mac, table |-> table]

Devs == {"net0", "net1"}
\* MACs a user configures: none, the first default address, one of another
\* prefix.  MACs a guest gives its device.
UserMacs == {NoUserMac, FIRST_DEFAULT_MAC, UniMac(1)}
GuestMacs == {DefaultMac(FIRST_DEFAULT_MAC[MAC_ADDR_LEN] + 1), UniMac(2)}

NoMev == [op |-> "none", d |-> "none", ok |-> TRUE]
MkMev(op, d, ok) == [op |-> op, d |-> d, ok |-> ok]

InitMac ==
    /\ used_mac_table = [i \in MacSlots |-> 0]
    /\ nets = [d \in Devs |-> NetAbsent]
    /\ plugs = 0
    /\ mev = NoMev

\* A device is created (Net::new) with the MAC the user configured, if any,
\* and realized.
Plug(d, user) ==
    LET r == RealizeMac(NetNew(user), used_mac_table)
    IN  /\ ~nets[d].present
        /\ plugs < MaxPlugs
        /\ plugs' = plugs + 1
        /\ mev' = MkMev("plug", d, r.ok)
        /\ used_mac_table' = r.table
        /\ nets' = [nets EXCEPT ![d] =
                        IF r.ok THEN [NetNew(user) EXCEPT !.mac = r.mac, !.given = r.mac]
                        ELSE NetAbsent]
        /\ UNCHANGED <<cpuVars, topoVars, barVars, tapVars, updVars>>
        /\ UNCHANGED <<avail, used, posted, queue_evt, device_broken, has_tap,
                       is_listening, ctrl_info, config_mac, io_panicked, nev, devVars>>

\* realize runs a second time on a realized device (a microvm device,
\* net.rs:1425).
RealizeAgain(d) ==
    LET r == RealizeMac(nets[d], used_mac_table)
    IN  /\ nets[d].present
        /\ nets[d].realized < MaxRealize
        /\ mev' = MkMev("realize", d, r.ok)
        /\ used_mac_table' = r.table
        /\ nets' = [nets EXCEPT ![d].mac = r.mac, ![d].realized = @ + 1]
        /\ UNCHANGED <<plugs, cpuVars, topoVars, barVars, tapVars, updVars>>
        /\ UNCHANGED <<avail, used, posted, queue_evt, device_broken, has_tap,
                       is_listening, ctrl_info, config_mac, io_panicked, nev, devVars>>

\* The guest gives the device another MAC with VIRTIO_NET_CTRL_MAC_ADDR_SET
\* (net.rs:282-299).
GuestSetMac(d, mac) ==
    /\ nets[d].present
    /\ mev' = MkMev("setmac", d, TRUE)
    /\ nets' = [nets EXCEPT ![d].mac = HandleMac(CtrlInfoNew, @, "ADDR_SET", mac).mac]
    /\ UNCHANGED <<used_mac_table, plugs, cpuVars, topoVars, barVars, tapVars, updVars>>
    /\ UNCHANGED <<avail, used, posted, queue_evt, device_broken, has_tap,
                   is_listening, ctrl_info, config_mac, io_panicked, nev, devVars>>

\* Net::unrealize (net.rs:1432-1439), after which the device is dropped.
Unplug(d) ==
    /\ nets[d].present
    /\ mev' = MkMev("unplug", d, TRUE)
    /\ used_mac_table' = MarkMacTable(used_mac_table, nets[d].mac, FALSE)
    /\ nets' = [nets EXCEPT ![d] = NetAbsent]
    /\ UNCHANGED <<plugs, cpuVars, topoVars, barVars, tapVars, updVars>>
    /\ UNCHANGED <<avail, used, posted, queue_evt, device_broken, has_tap,
                   is_listening, ctrl_info, config_mac, io_panicked, nev, devVars>>

NextMac ==
    \/ \E d \in Devs, user \in UserMacs : Plug(d, user)
    \/ \E d \in Devs : RealizeAgain(d)
    \/ \E d \in Devs, mac \in GuestMacs : GuestSetMac(d, mac)
    \/ \E d \in Devs : Unplug(d)

(***************************************************************************)
(* CpuTopology::get_topo_item (lib.rs:735-742): u8 arithmetic, which       *)
(* panics on overflow in a build with overflow checks and wraps in one     *)
(* without, and panics on a zero divisor in both.                          *)
(***************************************************************************)
U8Val(v) == [ok |-> TRUE, v |-> v]
U8Panic == [ok |-> FALSE, v |-> 0]

\* a * b on u8.
MulU8(x, b, checks) ==
    IF ~x.ok THEN x
    ELSE IF x.v * b > 255
         THEN (IF checks THEN U8Panic ELSE U8Val((x.v * b) % 256))
         ELSE U8Val(x.v * b)

\* a / b and a % b on u8.
DivU8(a, x) == IF ~x.ok \/ x.v = 0 THEN U8Panic ELSE U8Val(a \div x.v)
ModU8(x, b) == IF ~x.ok \/ b = 0 THEN U8Panic ELSE U8Val(x.v % b)

\* A core id taken modulo the cores without dividing by the threads.
CoreIdFlat(id, t) == ModU8(U8Val(id), t.cores)

\* coreid (lib.rs:739).
CoreId(id, t) == ModU8(DivU8(id, U8Val(t.threads)), t.cores)

GetTopoItem(t, vcpu_id, checks) ==
    LET id == vcpu_id % 256
        ct == MulU8(U8Val(t.cores), t.threads, checks)
        cct == MulU8(MulU8(U8Val(t.clusters), t.cores, checks), t.threads, checks)
        dcct == MulU8(MulU8(MulU8(U8Val(t.dies), t.clusters, checks), t.cores, checks),
                      t.threads, checks)
        socketid == DivU8(id, dcct)
        dieid == ModU8(DivU8(id, cct), t.dies)
        clusterid == ModU8(DivU8(id, ct), t.clusters)
        coreid == CoreId(id, t)
        threadid == ModU8(U8Val(id), t.threads)
        all == <<socketid, dieid, clusterid, coreid, threadid>>
    IN  IF \A k \in 1..5 : all[k].ok
        THEN [ok |-> TRUE, item |-> [k \in 1..5 |-> all[k].v]]
        ELSE [ok |-> FALSE, item |-> <<>>]

\* Topologies: the dimensions and nrcpus given to CpuTopology::new
\* (lib.rs:688-712), and whether the build checks arithmetic overflow.
TopoDims == [sockets : {1, 2}, dies : {0, 1, 2}, clusters : {1, 2},
             cores : {1, 2, 16}, threads : {0, 1, 2, 16, 17}]
NrCpus == {2, 8, 255}
VcpuIds == {0, 1, 2, 3, 4, 7, 15, 16, 17, 31, 32, 63, 254}
TopoDefault == [dims |-> [sockets |-> 1, dies |-> 1, clusters |-> 1, cores |-> 1, threads |-> 1],
                nrcpus |-> 1, checks |-> TRUE]

InitTopoIdle ==
    /\ topo = TopoDefault
    /\ topo_out = <<>>

InitTopo ==
    /\ \E t \in TopoDims, n \in NrCpus, c \in BOOLEAN :
          topo = [dims |-> t, nrcpus |-> n, checks |-> c]
    /\ topo_out = <<>>

\* get_topo_item is called for a vCPU of the machine; topo_out keeps the
\* last two calls.
TopoQuery ==
    \E i \in VcpuIds :
        /\ i < topo.nrcpus
        /\ LET r == GetTopoItem(topo.dims, i, topo.checks)
               this == [id |-> i, ok |-> r.ok, item |-> r.item]
           IN  topo_out' = IF topo_out = <<>> THEN <<this>>
                           ELSE <<topo_out[Len(topo_out)], this>>
        /\ UNCHANGED <<topo, cpuVars, macVars, barVars, tapVars, updVars>>
        /\ UNCHANGED <<avail, used, posted, queue_evt, device_broken, has_tap,
                       is_listening, ctrl_info, config_mac, io_panicked, nev, devVars>>

NextTopo == TopoQuery

(***************************************************************************)
(* The RX path with the tap's queue: the tap is registered edge-triggered   *)
(* (net.rs:1108-1113), so the event loop runs its notifier when frames      *)
(* arrive, not for as long as frames are left in it.                        *)
(***************************************************************************)
\* The frames the host sends: one addressed to the device and one to another
\* station, which the device drops once the guest has turned promisc off.
TapFrames == {FramePlain, FrameUni1}

InitTap ==
    /\ tap_queue = <<>>
    /\ tap_evt = FALSE

\* The host queues a frame in the tap; the event loop sees the edge when the
\* tap's notifier is not parked.
TapArrive ==
    /\ has_tap
    /\ Len(tap_queue) < MaxTapQueue
    /\ \E f \in TapFrames : tap_queue' = Append(tap_queue, f)
    /\ tap_evt' = ~tap_parked
    /\ nev' = NoNev
    /\ notifier_ops' = <<>>
    /\ UNCHANGED <<avail, used, posted, queue_evt, device_broken, has_tap, is_listening,
                   ctrl_info, config_mac, io_panicked, tap_parked>>
    /\ UNCHANGED <<cpuVars, cfgVars, macVars, topoVars, barVars, updVars>>

\* What the readv calls of one handle_rx return: the frames queued, in order,
\* and EWOULDBLOCK once the tap is empty.
ReadsOf(q) ==
    [i \in 1..QueueSize |-> IF i <= Len(q) THEN [kind |-> "frame", data |-> q[i]]
                            ELSE [kind |-> "EWOULDBLOCK", data |-> <<>>]]

\* The event loop delivers the tap's event: the tap's notifier (net.rs:1077-
\* 1107) runs handle_rx, which takes from the tap the frames it read.
TapEvent ==
    /\ tap_evt
    /\ TapCallback(ReadsOf(tap_queue))
    /\ tap_queue' = SubSeq(tap_queue, Len(nev'.filtered) + 1, Len(tap_queue))
    /\ tap_evt' = FALSE

\* The event loop delivers the RX eventfd's event: the RX queue's notifier
\* (net.rs:1019-1039).  A tap that is resumed is added to the poll set
\* again, which reports it when it holds frames.
RxEvent ==
    /\ RxCallback
    /\ tap_evt' = IF notifier_ops' = <<"Resume">> THEN tap_queue # <<>> ELSE tap_evt
    /\ UNCHANGED tap_queue

PostRxBuf == GuestPost("rx", "ok")
PostPromiscOff == GuestPost("ctrl", ReqPromiscOff)

NextRx ==
    \/ PostRxBuf
    \/ PostPromiscOff
    \/ CtrlNotifier
    \/ TapArrive
    \/ TapEvent
    \/ RxEvent

(***************************************************************************)
(* The taps of a device with several queue pairs: realize, activate and     *)
(* update_config on the main thread, and the update_evt notifier of each    *)
(* NetIoHandler (net.rs:1347-1430, 1522-1661, 931-1009).  A tap is          *)
(* identified by its fd.                                                    *)
(***************************************************************************)
\* Option<Vec<Tap>> and Option<Tap>.
NoTaps == [some |-> FALSE, taps |-> <<>>]
SomeTaps(fds) == [some |-> TRUE, taps |-> fds]
NoTap == [some |-> FALSE, fd |-> -1]
SomeTap(fd) == [some |-> TRUE, fd |-> fd]

\* Where the new configuration takes the taps from: a host device name
\* (net_cfg.host_dev_name), fds passed in (net_cfg.tap_fds), or neither.
TapCfgs == {"dev", "fds", "none"}
\* The fd of the tap opened for queue pair index by the n-th realize, and
\* the fd passed in for it.
OpenedFd(n, index) == 10 * (n + 1) + index
PassedFd(index) == 100 + index

NoUev == [op |-> "none", n |-> 0, i |-> 0, made |-> NoTaps, sent |-> <<>>]

\* realize (net.rs:1383-1401): the value of self.taps after the n-th call,
\* for k queue pairs.  Taps passed in as fds are kept when the device has
\* taps of just these fds.
RealizeTaps(cur, cfg, n, k) ==
    CASE cfg = "dev" -> SomeTaps([j \in 1..k |-> OpenedFd(n, j - 1)])
      [] cfg = "fds" ->
            LET fds == [j \in 1..k |-> PassedFd(j - 1)]
                created_fds == IF cur.some
                               THEN Cardinality({j \in 1..Len(cur.taps) :
                                        (IF j <= k THEN fds[j] ELSE -1) = cur.taps[j]})
                               ELSE 0
            IN  IF created_fds # Len(fds) THEN SomeTaps(fds) ELSE cur
      [] OTHER -> NoTaps

\* The loop over senders of update_config (net.rs:1635-1651) from iteration
\* index: each iteration takes self.taps, which leaves None in it, and sends
\* the tap of its index when it took a vector and None when it took nothing.
RECURSIVE SendTaps(_, _, _, _)
SendTaps(cur, index, k, out) ==
    IF index = k THEN [err |-> FALSE, taps |-> cur, sent |-> out]
    ELSE IF cur.some
         THEN IF index + 1 > Len(cur.taps)
              THEN [err |-> TRUE, taps |-> NoTaps, sent |-> out]
              ELSE SendTaps(NoTaps, index + 1, k, Append(out, SomeTap(cur.taps[index + 1])))
         ELSE SendTaps(NoTaps, index + 1, k, Append(out, NoTap))

InitUpd ==
    /\ net_taps = NoTaps
    /\ chans = <<>>
    /\ update_evts = <<>>
    /\ handlers = <<>>
    /\ uev = NoUev

\* realize and then activate (net.rs:1560-1606) with k queue pairs: each
\* handler gets a clone of the tap of its index, a channel and an update_evt.
ActivatePairs ==
    /\ handlers = <<>>
    /\ \E k \in 1..MaxPairs, cfg \in TapCfgs :
          LET made == RealizeTaps(NoTaps, cfg, 0, k)
          IN  /\ net_taps' = made
              /\ handlers' = [j \in 1..k |->
                                IF made.some
                                THEN [tap |-> SomeTap(made.taps[j]), tap_fd |-> made.taps[j]]
                                ELSE [tap |-> NoTap, tap_fd |-> -1]]
              /\ chans' = [j \in 1..k |-> <<>>]
              /\ update_evts' = [j \in 1..k |-> 0]
              /\ uev' = [NoUev EXCEPT !.op = "activate", !.made = made]
    /\ UNCHANGED <<cpuVars, macVars, topoVars, barVars, tapVars>>
    /\ UNCHANGED <<avail, used, posted, queue_evt, device_broken, has_tap,
                   is_listening, ctrl_info, config_mac, io_panicked, nev, devVars>>

\* update_config (net.rs:1611-1661) on the activated device: realize, one
\* message to each handler, then a write of 1 to each update_evt.
UpdateConfigPairs ==
    /\ handlers # <<>>
    /\ uev.n < MaxReconfig
    /\ \E cfg \in TapCfgs :
          LET k == Len(handlers)
              made == RealizeTaps(net_taps, cfg, uev.n + 1, k)
              r == SendTaps(made, 0, k, <<>>)
          IN  /\ net_taps' = r.taps
              /\ chans' = [j \in 1..k |->
                             IF j <= Len(r.sent) THEN Append(chans[j], r.sent[j])
                             ELSE chans[j]]
              /\ update_evts' = [j \in 1..k |->
                                   IF r.err THEN update_evts[j] ELSE update_evts[j] + 1]
              /\ uev' = [op |-> "update", n |-> uev.n + 1, i |-> 0,
                         made |-> made, sent |-> r.sent]
    /\ UNCHANGED handlers
    /\ UNCHANGED <<cpuVars, macVars, topoVars, barVars, tapVars>>
    /\ UNCHANGED <<avail, used, posted, queue_evt, device_broken, has_tap,
                   is_listening, ctrl_info, config_mac, io_panicked, nev, devVars>>

\* The update_evt notifier of handler i (net.rs:998-1009) with
\* update_evt_handler (net.rs:931-945): the eventfd is read, the handler
\* receives one message and keeps the tap in it and that tap's fd.
UpdateHandlerPairs(i) ==
    /\ i \in DOMAIN handlers
    /\ update_evts[i] > 0
    /\ chans[i] # <<>>
    /\ update_evts' = [update_evts EXCEPT ![i] = 0]
    /\ chans' = [chans EXCEPT ![i] = Tail(@)]
    /\ handlers' = [handlers EXCEPT ![i] =
                        [tap |-> Head(chans[i]), tap_fd |-> Head(chans[i]).fd]]
    /\ uev' = [uev EXCEPT !.op = "handle", !.i = i]
    /\ UNCHANGED net_taps
    /\ UNCHANGED <<cpuVars, macVars, topoVars, barVars, tapVars>>
    /\ UNCHANGED <<avail, used, posted, queue_evt, device_broken, has_tap,
                   is_listening, ctrl_info, config_mac, io_panicked, nev, devVars>>

NextUpd ==
    \/ ActivatePairs
    \/ UpdateConfigPairs
    \/ \E i \in 1..MaxPairs : UpdateHandlerPairs(i)

(***************************************************************************)
(* The start of a machine's vCPUs: start() is called once for each CPU     *)
(* with one Barrier shared by all of them, and each worker goes through    *)
(* the startup of CPUThreadWorker::handle (lib.rs:611-631) on its own CPU. *)
(***************************************************************************)
Vcpus == 1..MaxVcpus
\* The positions before thread_barrier.wait(): about to run
\* init_local_thread_vcpu, init_signals, set_tid, reset, the wait.
StartupSteps == <<"init", "signals", "tid", "reset", "barrier">>
StepIndex(p) == CHOOSE i \in 1..Len(StartupSteps) : StartupSteps[i] = p

\* A barrier that lets its threads go one arrival early.
BarrierReleasesEarly(count, n) == count + 1 >= n - 1

\* Barrier::wait: the arrival that makes the count reach the barrier's size
\* releases every waiting thread.
BarrierReleases(count, n) == count + 1 = n

InitBar ==
    /\ bpc = [v \in Vcpus |-> "unborn"]
    /\ arrived = 0

\* lib.rs:293-306: start() of the next CPU spawns its worker thread.
BSpawn(v) ==
    /\ bpc[v] = "unborn"
    /\ \A u \in Vcpus : u < v => bpc[u] # "unborn"
    /\ bpc' = [bpc EXCEPT ![v] = "init"]
    /\ UNCHANGED <<arrived, cpuVars, macVars, topoVars, tapVars, updVars>>
    /\ UNCHANGED <<avail, used, posted, queue_evt, device_broken, has_tap,
                   is_listening, ctrl_info, config_mac, io_panicked, nev, devVars>>

\* lib.rs:612-627: one startup call of the worker returns; a reset() that
\* returns an error ends the thread before the barrier.
BStep(v) ==
    /\ bpc[v] \in {"init", "signals", "tid", "reset"}
    /\ \E ok \in BOOLEAN :
          bpc' = [bpc EXCEPT ![v] = IF bpc[v] = "reset" /\ ~ok THEN "failed"
                                    ELSE StartupSteps[StepIndex(bpc[v]) + 1]]
    /\ UNCHANGED <<arrived, cpuVars, macVars, topoVars, tapVars, updVars>>
    /\ UNCHANGED <<avail, used, posted, queue_evt, device_broken, has_tap,
                   is_listening, ctrl_info, config_mac, io_panicked, nev, devVars>>

\* lib.rs:631: thread_barrier.wait().
BArrive(v) ==
    /\ bpc[v] = "barrier"
    /\ IF BarrierReleases(arrived, MaxVcpus)
       THEN /\ bpc' = [u \in Vcpus |-> IF u = v \/ bpc[u] = "waiting" THEN "ready"
                                        ELSE bpc[u]]
            /\ arrived' = 0
       ELSE /\ bpc' = [bpc EXCEPT ![v] = "waiting"]
            /\ arrived' = arrived + 1
    /\ UNCHANGED <<cpuVars, macVars, topoVars, tapVars, updVars>>
    /\ UNCHANGED <<avail, used, posted, queue_evt, device_broken, has_tap,
                   is_listening, ctrl_info, config_mac, io_panicked, nev, devVars>>

\* lib.rs:634-639: ready_for_running() returns true and the worker makes its
\* first call of kvm_vcpu_exec.
BFirstRun(v) ==
    /\ bpc[v] = "ready"
    /\ bpc' = [bpc EXCEPT ![v] = "kvm_run"]
    /\ UNCHANGED <<arrived, cpuVars, macVars, topoVars, tapVars, updVars>>
    /\ UNCHANGED <<avail, used, posted, queue_evt, device_broken, has_tap,
                   is_listening, ctrl_info, config_mac, io_panicked, nev, devVars>>

NextBar ==
    \/ \E v \in Vcpus : BSpawn(v)
    \/ \E v \in Vcpus : BStep(v)
    \/ \E v \in Vcpus : BArrive(v)
    \/ \E v \in Vcpus : BFirstRun(v)

(***************************************************************************)
(* Specifications: the vCPU engine with the device idle, and the device    *)
(* with the vCPU idle.                                                     *)
(***************************************************************************)
NegotiatedFeatures == MacGateFeatures
InitSideIdle == InitMac /\ InitTopoIdle /\ InitBar /\ InitTap /\ InitUpd
InitCpuOnly == InitCpu /\ InitNet /\ InitSideIdle /\ has_tap /\ driver_features = NegotiatedFeatures
SpecCpu == InitCpuOnly /\ [][NextCpu]_vars

\* Fair scheduling of the vCPU engine.  A controller thread that is inside an
\* operation takes its next step when it can (the timed wait of destroy
\* included: it ends after 32 ms); a worker thread takes the next step of
\* handle() when it can; a pending signal is delivered to a live thread.
\* Nothing makes a controller begin an operation, the guest leave fd.run() on
\* its own, or a Condvar::wait return without a notification.
CtlStep(c) ==
    \/ RealizeArch(c)
    \/ StartSetSpawn(c) \/ StartLockTask(c) \/ StartJoinStore(c)
    \/ PauseSet(c) \/ PauseKill(c) \/ PauseSpin(c)
    \/ DestroySetStopping(c) \/ DestroyCheckStopped(c) \/ DestroySetNothing(c)
    \/ DestroyKickWait(c) \/ DestroyTimeout(c) \/ DestroyFinish(c)
WorkerStep(w) ==
    \/ WInitLocal(w) \/ WInitSignals(w) \/ WReset(w) \/ WBarrier(w)
    \/ WReady(w) \/ WKvmRun(w) \/ WDispatch(w) \/ WExit(w)
SignalStep(w) == DeliverTask(w) \/ DeliverReset(w)
FairCpu ==
    /\ \A c \in Ctls : WF_vars(CtlStep(c))
    /\ \A w \in Workers : WF_vars(WorkerStep(w)) /\ WF_vars(SignalStep(w))
SpecCpuFair == InitCpuOnly /\ [][NextCpu]_vars /\ FairCpu

InitNetOnly == InitCpu /\ InitNet /\ InitSideIdle /\ driver_features = NegotiatedFeatures
SpecNet == InitNetOnly /\ [][NextNet]_vars

InitCtrlOnly == InitCpu /\ InitNet /\ InitSideIdle /\ has_tap /\ driver_features = NegotiatedFeatures
SpecCtrl == InitCtrlOnly /\ [][NextCtrl]_vars

InitQueuedOnly == InitCpu /\ InitNet /\ InitSideIdle /\ has_tap /\ driver_features = NegotiatedFeatures
SpecQueued == InitQueuedOnly /\ [][NextQueued]_vars

\* The features the driver negotiated are any of those write_config tests.
InitCfgOnly == InitCpu /\ InitNet /\ InitSideIdle /\ has_tap
SpecCfg == InitCfgOnly /\ [][NextCfg]_vars

InitMacOnly ==
    InitCpu /\ InitNet /\ InitMac /\ InitTopoIdle /\ InitBar /\ InitTap /\ InitUpd /\ has_tap
        /\ driver_features = NegotiatedFeatures
SpecMac == InitMacOnly /\ [][NextMac]_vars

InitRxOnly == InitCpu /\ InitNet /\ InitSideIdle /\ has_tap /\ driver_features = NegotiatedFeatures
SpecRx == InitRxOnly /\ [][NextRx]_vars

InitUpdOnly == InitCpu /\ InitNet /\ InitSideIdle /\ has_tap /\ driver_features = NegotiatedFeatures
SpecUpd == InitUpdOnly /\ [][NextUpd]_vars

SpecBar == InitCpuOnly /\ [][NextBar]_vars

InitTopoOnly ==
    InitCpu /\ InitNet /\ InitMac /\ InitTopo /\ InitBar /\ InitTap /\ InitUpd /\ has_tap
        /\ driver_features = NegotiatedFeatures
SpecTopo == InitTopoOnly /\ [][NextTopo]_vars

InitDevOnly == InitCpu /\ InitNet /\ InitSideIdle /\ has_tap /\ driver_features = NegotiatedFeatures
SpecDev == InitDevOnly /\ [][NextDev]_vars

(***************************************************************************)
(* Properties of the vCPU engine.                                          *)
(***************************************************************************)
\* The edges of the lifecycle diagram.
LifecycleEdges ==
    {<<"Created", "Running">>, <<"Created", "Paused">>, <<"Running", "Paused">>,
     <<"Paused", "Running">>, <<"Running", "Stopping">>, <<"Running", "Stopped">>,
     <<"Stopping", "Stopped">>, <<"Stopped", "Nothing">>}

\* C1: every change of the lifecycle state is an edge of the diagram; in
\* particular Stopping, Stopped and Nothing are never followed by Running or
\* Paused, and Stopped is never written after Nothing.
C1_LifecycleEdges == [][state' # state => <<state, state'>> \in LifecycleEdges]_vars

\* C2: from the return of a pause() that signalled a started worker until the
\* next resume(), pause_signal is true and the worker does not execute guest
\* code.  Stated for the executions in which start() was called once and the
\* state is still the Paused that pause() left.
C2_PausedOutsideKvm ==
    (paused_ok /\ state = "Paused" /\ Cardinality(Workers \ Unborn) = 1)
        => (pause_signal /\ \A w \in Workers : wpc[w] # "in_guest")

\* C3: when resume() returns, the state is Running and pause_signal is false.
C3_ResumePostcondition ==
    (ev.kind = "ret" /\ ev.op = "resume") => (state = "Running" /\ ~pause_signal)

\* C5: destroy() returns Ok only when it saw Stopped and wrote Nothing;
\* otherwise it returns DestroyVcpu for the state it saw after the wait, and
\* leaves the state, the worker threads and the stored handle as they were.
C5_DestroyOutcome ==
    [][(ev'.kind = "ret" /\ ev'.op = "destroy") =>
        IF ev'.res = "Ok"
        THEN ev'.seen = "Stopped" /\ state' = "Nothing"
        ELSE /\ ev'.res = "DestroyVcpu"
             /\ ev'.seen = state
             /\ state # "Stopped"
             /\ UNCHANGED <<state, wpc, task>>]_vars

\* A destroy() whose bounded wait ended with a live worker and the state not
\* Stopped has returned DestroyVcpu.
C5_Witness ==
    /\ ev.kind = "ret" /\ ev.op = "destroy" /\ ev.res = "DestroyVcpu"
    /\ \E w \in Workers : Alive(w)

\* C6: the state Nothing is entered only from Stopped (and the vCPU starts in
\* Created).
C6_NothingOnlyFromStopped ==
    [][(state' = "Nothing" /\ state # "Nothing") => state = "Stopped"]_vars

\* C7: a realize() passes its check only in state Created on a vCPU that has
\* not been realized; a realize() that returns RealizeVcpu leaves ArchCPU,
\* boot_state and the lifecycle state unchanged.
C7_RealizeOnce ==
    [][/\ (\E c \in Ctls : cpc[c] = "idle" /\ cpc'[c] = "realize_arch")
            => (state = "Created" /\ ~realized)
       /\ (ev'.kind = "ret" /\ ev'.op = "realize" /\ ev'.res = "RealizeVcpu")
            => UNCHANGED <<arch_cpu, boot_state, state>>]_vars

C9_DispatchTable ==
    (ev.kind = "exec" /\ ev.op # "none") =>
        /\ ev.op = "MmioRead" => (ev.res = "continue" /\ ev.seen = "mmio_read")
        /\ ev.op = "MmioWrite" => (ev.res = "continue" /\ ev.seen = "mmio_write")
        /\ ev.op = "SystemEventShutdown"
            => (ev.res = "stop" /\ ev.seen = "destroy" /\ state = "Stopped")
        /\ ev.op = "SystemEventReset" => (ev.res = "continue" /\ ev.seen = "reset")
        /\ ev.op \in {"SystemEventOther", "FailEntry", "InternalError"}
            => (ev.res = "stop" /\ ev.seen = "none")
        /\ ev.op = "EAGAIN" => (ev.res = "continue" /\ ev.seen = "none")
        /\ ev.op = "EINTR"
            => (ev.res = "continue" /\ ev.seen = "none" /\ ~immediate_exit)
        /\ ev.op = "EOTHER" => (ev.res = "UnhandledKvmExit" /\ ev.seen = "none")
        /\ ev.op = "OtherExit" => (ev.res = "VcpuExitReason" /\ ev.seen = "none")

\* A run interrupted by a signal that set the immediate-exit flag has been
\* dispatched.
C9_Witness ==
    /\ ev.kind = "exec" /\ ev.op = "EINTR" /\ ev.res = "continue"
    /\ pause_signal

(***************************************************************************)
(* Properties of the virtio-net device.                                    *)
(***************************************************************************)
\* How many times the chain with this id is in a sequence of chains / of ids.
InAvail(q, id) == Cardinality({i \in DOMAIN avail[q] : avail[q][i].id = id})
InUsed(q, id) == Cardinality({i \in DOMAIN used[q] : used[q][i] = id})

\* C4: when handle_rx, handle_tx or handle_ctrl has returned Ok, every chain
\* the guest posted is on the used ring once or is (still or again) available,
\* and never both: no chain was popped and then neither used nor pushed back.
C4_ChainsAccounted ==
    (nev.h \in {"rx", "tx", "ctrl"} /\ nev.res = "Ok") =>
        \A q \in Queues : \A id \in 1..posted[q] : InAvail(q, id) + InUsed(q, id) = 1

\* C10: with promisc off, an 802.1Q frame addressed to the device is accepted
\* exactly when the bit of its VID is set in vlan_map, and filter_packets
\* decides without indexing past the buffer it was given.
C10_VlanFilter ==
    \A i \in DOMAIN nev.filtered :
        LET f == nev.filtered[i]
            vid == FrameVid(f.frame)
        IN  (~ctrl_info.rx_mode.promisc /\ EtherType(f.frame) = Tpid8021Q
                /\ Dst(f.frame) = config_mac)
            => /\ f.verdict # "panic"
               /\ f.verdict = "accept"
                    <=> TestBit(VlanValue(ctrl_info.vlan_map, vid \div 32), vid % 32)

\* The rule of the specification for a frame without a VLAN tag.
RefFilter(ci, mac, dst) ==
    LET m == ci.rx_mode
    IN  IF m.promisc THEN "accept"
        ELSE IF dst = BcastMac THEN (IF m.no_bcast THEN "drop" ELSE "accept")
        ELSE IF dst[1] % 2 = 1
        THEN IF m.no_multi THEN "drop"
             ELSE IF m.all_multi \/ ci.multi_mac_of THEN "accept"
             ELSE IF \E i \in DOMAIN ci.multi_mac_table : ci.multi_mac_table[i] = dst
                  THEN "accept" ELSE "drop"
        ELSE IF m.no_uni THEN "drop"
             ELSE IF m.all_uni \/ ci.uni_mac_of \/ dst = mac THEN "accept"
             ELSE IF \E i \in DOMAIN ci.uni_mac_table : ci.uni_mac_table[i] = dst
                  THEN "accept" ELSE "drop"

\* C11: every frame without a VLAN tag that handle_rx passed to
\* filter_packets got the verdict of the reference rule for the filter state
\* it met.
C11_FilterReference ==
    \A i \in DOMAIN nev.filtered :
        LET f == nev.filtered[i]
        IN  EtherType(f.frame) # Tpid8021Q
                => f.verdict = RefFilter(ctrl_info, config_mac, Dst(f.frame))

\* C12: the two MAC tables together never hold more than CTRL_MAC_TABLE_LEN
\* addresses, whatever control requests were handled (those acked ERR
\* part-way through included).
C12_MacTableCap ==
    Len(ctrl_info.uni_mac_table) + Len(ctrl_info.multi_mac_table) <= CTRL_MAC_TABLE_LEN

\* The event-loop step in which handle_ctrl ran to its end on the one chain
\* the control queue held, and the request of that chain.
CtrlStepOk == Len(avail["ctrl"]) = 1 /\ nev'.h = "ctrl" /\ nev'.res = "Ok"
CtrlStepReq == avail["ctrl"][1].req
\* The destination of a frame is a unicast address.
IsUnicast(frame) == frame[1] % 2 = 0

\* C13: a TABLE_SET with 65 unicast and no multicast entries is acked OK,
\* sets uni_mac_of, leaves uni_mac_table empty and has its multicast part
\* applied; while uni_mac_of is set, with promisc and no_uni off, every
\* unicast frame given to the filter is accepted.
C13_UniOverflow ==
    [][/\ (CtrlStepOk /\ CtrlStepReq = ReqTableUniOver)
            => /\ nev'.acks = <<[id |-> avail["ctrl"][1].id, ack |-> "VIRTIO_NET_OK", len |-> 1]>>
               /\ ctrl_info'.uni_mac_of
               /\ ctrl_info'.uni_mac_table = <<>>
               /\ ctrl_info'.multi_mac_table = <<>>
       /\ (nev'.h = "rx" /\ ctrl_info.uni_mac_of
                /\ ~ctrl_info.rx_mode.promisc /\ ~ctrl_info.rx_mode.no_uni)
            => \A i \in DOMAIN nev'.filtered :
                   IsUnicast(nev'.filtered[i].frame) => nev'.filtered[i].verdict = "accept"]_vars

\* After the overflowing TABLE_SET, with promisc off, a frame to a unicast
\* address that is neither the device's nor in a table has been accepted.
C13_Witness ==
    /\ nev.h = "rx"
    /\ ctrl_info.uni_mac_of /\ ctrl_info.uni_mac_table = <<>>
    /\ ~ctrl_info.rx_mode.promisc /\ ~ctrl_info.rx_mode.no_uni /\ ~ctrl_info.rx_mode.all_uni
    /\ \E i \in DOMAIN nev.filtered :
           nev.filtered[i] = [frame |-> FrameUni2, verdict |-> "accept"]

\* C14: a TABLE_SET whose entry counts fit (a table of one address each, or
\* empty tables) leaves both overflow flags false, whatever TABLE_SET
\* requests overflowed before it.
C14_OverflowCleared ==
    [][(CtrlStepOk /\ CtrlStepReq \in {ReqTableFits, ReqTableEmpty})
            => (~ctrl_info'.uni_mac_of /\ ~ctrl_info'.multi_mac_of)]_vars

\* VID v is allowed by the VLAN table.
VlanBit(ci, v) == TestBit(VlanValue(ci.vlan_map, v \div 32), v % 32)

\* C15: a VLAN_ADD / VLAN_DEL with vid < 4096 is acked OK and sets / clears
\* the bit of that VID and no other; a VID of 4096 or more, or an unknown VLAN
\* command, is acked ERR and changes nothing.
C15_VlanTable ==
    [][(CtrlStepOk /\ CtrlStepReq.class = "VLAN" /\ Len(CtrlStepReq.data) >= 2)
            => LET vid == U16FromLe(CtrlStepReq.data)
                   cmd == CtrlStepReq.cmd
               IN  IF vid < 4096 /\ cmd \in {"ADD", "DEL"}
                   THEN /\ nev'.acks[1].ack = "VIRTIO_NET_OK"
                        /\ \A v \in 0..4095 :
                              VlanBit(ctrl_info', v)
                                  = (IF v = vid THEN cmd = "ADD" ELSE VlanBit(ctrl_info, v))
                   ELSE /\ nev'.acks[1].ack = "VIRTIO_NET_ERR"
                        /\ ctrl_info' = ctrl_info]_vars

\* VLAN_ADD(100), VLAN_ADD(101) and VLAN_DEL(100) have been handled: of the
\* word of VIDs 96..127 only the bit of 101 is set.
C15_Witness ==
    /\ nev.h = "ctrl" /\ nev.res = "Ok"
    /\ 3 \in DOMAIN ctrl_info.vlan_map
    /\ \A v \in 96..127 : VlanBit(ctrl_info, v) <=> v = 101
    /\ posted["ctrl"] = 3

\* The rx_mode field each receive-mode command names.
RxModeFields ==
    [PROMISC |-> "promisc", ALLMULTI |-> "all_multi", ALLUNI |-> "all_uni",
     NOMULTI |-> "no_multi", NOUNI |-> "no_uni", NOBCAST |-> "no_bcast"]

\* C16: a receive-mode command with payload 0 or 1 is acked OK and sets the
\* field it names to that value and nothing else; any other payload byte, or
\* an unknown receive-mode command, is acked ERR and changes nothing.
C16_RxMode ==
    [][(CtrlStepOk /\ CtrlStepReq.class = "RX" /\ Len(CtrlStepReq.data) >= 1)
            => LET cmd == CtrlStepReq.cmd
                   b == CtrlStepReq.data[1]
               IN  IF b \in {0, 1} /\ cmd \in DOMAIN RxModeFields
                   THEN /\ nev'.acks[1].ack = "VIRTIO_NET_OK"
                        /\ ctrl_info' = [ctrl_info EXCEPT
                                            !.rx_mode[RxModeFields[cmd]] = (b = 1)]
                   ELSE /\ nev'.acks[1].ack = "VIRTIO_NET_ERR"
                        /\ ctrl_info' = ctrl_info]_vars

\* Receive-mode commands have switched promiscuous mode off and NOBCAST and
\* ALLUNI on.
C16_Witness ==
    /\ nev.h = "ctrl" /\ nev.res = "Ok"
    /\ ~ctrl_info.rx_mode.promisc
    /\ ctrl_info.rx_mode.no_bcast
    /\ ctrl_info.rx_mode.all_uni
    /\ ~ctrl_info.rx_mode.all_multi

\* C17: a VQ_PAIRS_SET is acked OK exactly when the number of queue pairs it
\* asks for is in 1..32, whether the payload follows the header in the first
\* descriptor or has a descriptor of its own; any other MQ command is acked
\* ERR.
C17_MqPairs ==
    [][(CtrlStepOk /\ CtrlStepReq.class = "MQ" /\ Len(CtrlStepReq.data) >= 2)
            => IF CtrlStepReq.cmd = "VQ_PAIRS_SET"
               THEN (nev'.acks[1].ack = "VIRTIO_NET_OK")
                        <=> (U16FromLe(CtrlStepReq.data) \in 1..32)
               ELSE nev'.acks[1].ack = "VIRTIO_NET_ERR"]_vars

\* A request whose buffers have the sizes handle_ctrl requires, of a class or
\* with a command the device does not know.
IsUnknownReq(req) == req.valid /\ (req.class = "UNKNOWN" \/ req.cmd = "UNKNOWN")

\* The chains at the head of the control queue that have a header and a
\* status buffer, up to the first one that has not.
RECURSIVE WellFormedPrefix(_)
WellFormedPrefix(av) ==
    IF av = <<>> \/ ~Head(av).req.valid THEN <<>>
    ELSE <<Head(av)>> \o WellFormedPrefix(Tail(av))

\* A run of the control queue's notifier on a device that is not broken.
CtrlRun == queue_evt["ctrl"] /\ ~device_broken /\ nev'.h = "ctrl"

\* C18: every control chain with a 2-byte header and a 1-byte status buffer
\* gets exactly one status byte, OK or ERR, and goes to the used ring with
\* length 1; a request of an unknown class or command is NAKed and nothing
\* else: the device is not marked broken, the filter state stays as it was,
\* and the chains queued behind it are still processed.
C18_CtrlAck ==
    [][CtrlRun =>
        LET av == avail["ctrl"]
            done == WellFormedPrefix(av)
            acks == nev'.acks
        IN  /\ Len(acks) = Len(done)
            /\ \A i \in 1..Len(done) :
                  /\ acks[i].id = done[i].id
                  /\ acks[i].ack \in {"VIRTIO_NET_OK", "VIRTIO_NET_ERR"}
                  /\ acks[i].len = 1
                  /\ IsUnknownReq(done[i].req) => acks[i].ack = "VIRTIO_NET_ERR"
            /\ used'["ctrl"] = used["ctrl"] \o [i \in 1..Len(done) |-> done[i].id]
            /\ (Len(done) = Len(av)) => (~device_broken' /\ avail'["ctrl"] = <<>>)
            /\ (\A i \in 1..Len(done) : IsUnknownReq(done[i].req))
                  => (ctrl_info' = ctrl_info /\ config_mac' = config_mac)
            /\ (Len(av) = 2 /\ IsUnknownReq(av[1].req) /\ av[2].req = ReqPromiscOff)
                  => ctrl_info' = [ctrl_info EXCEPT !.rx_mode.promisc = FALSE]]_vars

\* A request of an unknown class queued ahead of PROMISC off has been NAKed
\* and the request behind it carried out, the device not broken.
C18_Witness ==
    /\ nev.h = "ctrl" /\ nev.res = "Ok"
    /\ Len(nev.acks) = 2
    /\ nev.acks[1].ack = "VIRTIO_NET_ERR"
    /\ nev.acks[2].ack = "VIRTIO_NET_OK"
    /\ ~ctrl_info.rx_mode.promisc
    /\ ctrl_info.vlan_map = EmptyMap
    /\ used["ctrl"] = <<1, 2>>
    /\ ~device_broken

\* C19: a handler that returns an error sets device_broken; once set it
\* stays set, and every callback of the control queue, the RX and TX
\* eventfds, the tap and the config update that runs afterwards returns
\* without popping or using a descriptor, without changing the filter state
\* and without returning a notifier operation.
C19_BrokenShortCircuit ==
    [][/\ nev'.res = "Err" => device_broken'
       /\ device_broken =>
        /\ device_broken'
        /\ nev'.h # "none" =>
              /\ nev'.res = "broken"
              /\ avail' = avail
              /\ used' = used
              /\ ctrl_info' = ctrl_info
              /\ config_mac' = config_mac
              /\ notifier_ops' = <<>>
              /\ <<has_tap, tap_chan, is_listening, tap_parked>>'
                    = <<has_tap, tap_chan, is_listening, tap_parked>>]_vars

\* The device is broken, chains wait on all three queues with their eventfds
\* consumed, and the config-update callback has just returned leaving the new
\* tap in the channel.
C19_Witness ==
    /\ device_broken
    /\ nev.h = "update" /\ nev.res = "broken"
    /\ tap_chan # <<>>
    /\ \A q \in Queues : avail[q] # <<>> /\ ~queue_evt[q]

\* C20: an in-range write_config to the MAC bytes returns Ok; when the driver
\* negotiated VIRTIO_NET_F_CTRL_MAC_ADDR or VIRTIO_F_VERSION_1 the config
\* space is left as it was, and otherwise a read_config of the same offset
\* and length made next returns the data written.  No byte outside
\* [off, off + len) is changed by write_config.
C20_WriteConfig ==
    [][LET off == cev'.off
           len == Len(cev'.data)
           either == \/ "VIRTIO_NET_F_CTRL_MAC_ADDR" \in driver_features
                     \/ "VIRTIO_F_VERSION_1" \in driver_features
       IN  /\ cev'.op = "write"
                => /\ \A i \in 0..(Len(ConfigSpace) - 1) :
                         (i < off \/ i >= off + len)
                            => ConfigSpace'[i + 1] = ConfigSpace[i + 1]
                   /\ off + len <= MAC_ADDR_LEN
                         => /\ cev'.res = "Ok"
                            /\ either => ConfigSpace' = ConfigSpace
           /\ (/\ cev.op = "write" /\ cev.res = "Ok" /\ ~either
               /\ cev'.op = "read" /\ off = cev.off /\ len = Len(cev.data))
                => (cev'.res = "Ok" /\ cev'.out = cev.data)]_vars

\* With neither feature negotiated, two bytes of the MAC were written at
\* offset 4 and read back.
C20_Witness ==
    /\ driver_features = {}
    /\ cev.op = "read" /\ cev.off = 4 /\ cev.res = "Ok"
    /\ cev.out = <<255, 0>>
    /\ SubSeq(config_mac, 1, 4) = SubSeq(FIRST_DEFAULT_MAC, 1, 4)

\* C21 as stated: read_config succeeds exactly when off + len <= 14; a
\* one-byte write_config at offset 13 or 14 and a 14-byte one at offset 0 fail
\* with DevConfigOverflow; a failing call changes nothing.
C21_ConfigBounds14 ==
    [][LET off == cev'.off
           len == Len(cev'.data)
       IN  /\ cev'.op = "read" => (cev'.res = "Ok" <=> off + len <= 14)
           /\ (cev'.op = "write" /\ ((off \in {13, 14} /\ len = 1) \/ (off = 0 /\ len = 14)))
                => cev'.res = "DevConfigOverflow"
           /\ (cev'.op # "none" /\ cev'.res # "Ok")
                => (ConfigSpace' = ConfigSpace /\ cev'.out = <<>>)]_vars

\* C21 amended: the same with the 17 bytes of VirtioNetConfig as the length
\* of the config space read_config checks against.
C21_ConfigBounds ==
    [][LET off == cev'.off
           len == Len(cev'.data)
       IN  /\ cev'.op = "read" => (cev'.res = "Ok" <=> off + len <= 17)
           /\ (cev'.op = "write" /\ ((off \in {13, 14} /\ len = 1) \/ (off = 0 /\ len = 14)))
                => cev'.res = "DevConfigOverflow"
           /\ (cev'.op # "none" /\ cev'.res # "Ok")
                => (ConfigSpace' = ConfigSpace /\ cev'.out = <<>>)]_vars

\* The last byte of the config space, at offset 16, has been read, after a
\* read at the largest offset failed.
C21_Witness ==
    /\ cev.op = "read" /\ cev.off = 16 /\ Len(cev.data) = 1
    /\ cev.res = "Ok" /\ cev.out = <<0>>


\* The default addresses held by the realized devices other than d: the
\* last byte of each address a device was given by realize.
HeldBut(d) ==
    {nets[e].given[MAC_ADDR_LEN] : e \in {e \in Devs \ {d} :
        /\ nets[e].present
        /\ MacPrefix(nets[e].given) = MacPrefix(FIRST_DEFAULT_MAC)}}
LowestFree(d) ==
    CHOOSE i \in MacSlots \ HeldBut(d) : \A j \in MacSlots \ HeldBut(d) : i <= j

\* C22: a device created without a MAC is realized with the lowest default
\* address, counted from 52:54:00:12:34:56, that no other realized device
\* holds: an address is held from the realize that gave it to the unrealize
\* of that device, and is free again afterwards.
C22_DefaultMac ==
    [][\A d \in Devs :
          (mev'.op = "plug" /\ mev'.d = d /\ nets'[d].user = NoUserMac)
              => /\ mev'.ok
                 /\ nets'[d].given = DefaultMac(LowestFree(d))]_vars

\* The decomposition in unbounded integers, for dimensions that are not 0.
RefTopoItem(t, i) ==
    <<i \div (t.dies * t.clusters * t.cores * t.threads),
      (i \div (t.clusters * t.cores * t.threads)) % t.dies,
      (i \div (t.cores * t.threads)) % t.clusters,
      (i \div t.threads) % t.cores,
      i % t.threads>>
DimsNonZero(t) == t.dies > 0 /\ t.clusters > 0 /\ t.cores > 0 /\ t.threads > 0

\* C23: for every topology of 8-bit dimensions and every vCPU index below
\* nrcpus, get_topo_item returns, without an overflow or a division by zero,
\* socket = i / (dies*clusters*cores*threads), die = (i / (clusters*cores*
\* threads)) mod dies, cluster = (i / (cores*threads)) mod clusters,
\* core = (i / threads) mod cores and thread = i mod threads.
C23_TopoItem ==
    \A k \in 1..Len(topo_out) :
        /\ topo_out[k].ok
        /\ DimsNonZero(topo.dims)
        /\ topo_out[k].item = RefTopoItem(topo.dims, topo_out[k].id)

\* C24: two distinct vCPU indices below nrcpus never get the same
\* (socket, die, cluster, core, thread) from get_topo_item.
C24_TopoInjective ==
    (/\ Len(topo_out) = 2
     /\ topo_out[1].ok /\ topo_out[2].ok
     /\ topo_out[1].id # topo_out[2].id)
        => topo_out[1].item # topo_out[2].item

\* Two distinct vCPUs of one core were both decomposed, in a topology with
\* more than one thread and more than one core.
C24_Witness ==
    /\ Len(topo_out) = 2
    /\ topo_out[1].ok /\ topo_out[2].ok
    /\ topo_out[1].id # topo_out[2].id
    /\ topo.dims.threads > 1 /\ topo.dims.cores > 1
    /\ topo_out[1].item[4] = topo_out[2].item[4]
    /\ topo_out[1].item[5] # topo_out[2].item[5]

\* C25: a worker that terminates after the barrier, on any of the three ways
\* out of its loop (ready_for_running false, kvm_vcpu_exec saying stop,
\* kvm_vcpu_exec failing), has written Stopped when it terminates.
C25_StoppedOnExit ==
    [][\A w \in Workers :
          (~Terminated(w) /\ wpc'[w] \in {"done", "failed"}) => state' = "Stopped"]_vars

\* The positions of a worker inside the loop of handle().
InLoop(w) == wpc[w] \in {"ready", "cv_wait", "kvm_run", "in_guest", "run_ret"}

\* C26: when destroy() finds the state Running while the worker is in its
\* loop, it writes Stopping and kicks the worker, and under fair scheduling
\* the worker leaves its loop and writes Stopped, wherever in the loop it was
\* (in a process that lives).
C26_DestroyStopsWorker ==
    \A c \in Ctls, w \in Workers :
        (cpc[c] = "destroy_set_stopping" /\ InLoop(w)) ~> (wpc[w] = "done" \/ proc_killed)

\* C27: a pause() that found a task handle and waits for pause_signal returns
\* after finitely many steps under fair scheduling (in a process that lives).
C27_PauseTerminates ==
    \A c \in Ctls : (cpc[c] = "pause_spin") ~> (cpc[c] = "idle" \/ proc_killed)

\* C28: when resume() has changed Paused to Running while a worker was blocked
\* in ready_for_running(), the worker eventually calls KVM run again (if the
\* state is not changed once more first and the process lives), whoever else
\* waits on the condvar.
C28_ResumeWakesWorker ==
    \A w \in Workers :
        (/\ ev.kind = "ret" /\ ev.op = "resume" /\ ev.seen = "Paused"
         /\ state = "Running"
         /\ wpc[w] \in {"cv_wait", "ready"})
            ~> (wpc[w] = "kvm_run" \/ state # "Running" \/ proc_killed)

\* C29: a worker that has seen Paused in ready_for_running() stays inside it
\* (waiting, or woken and about to look at the state again) and goes on to a
\* KVM run only on reading a state other than Paused; a TASK signal handled
\* while it waits, and a wakeup without notification, change neither the
\* state nor that the worker is in ready_for_running().
C29_PausedBlocks ==
    [][\A w \in Workers :
          /\ wpc[w] = "cv_wait" => wpc'[w] \in {"cv_wait", "ready"}
          /\ (wpc[w] = "ready" /\ state = "Paused") => wpc'[w] \in {"ready", "cv_wait"}
          /\ (wpc[w] \in {"ready", "cv_wait"} /\ wpc'[w] = "kvm_run") => state # "Paused"
          /\ (wpc[w] = "cv_wait" /\ sig_task'[w] < sig_task[w])
                => (state' = state /\ wpc'[w] = "cv_wait")
          /\ (wpc[w] = "cv_wait" /\ wpc' = [wpc EXCEPT ![w] = "ready"]
                /\ UNCHANGED <<cpc, nops>>)
                => state' = state]_vars

\* A worker waits in ready_for_running() with the state Paused after the TASK
\* signal of a pause() that has returned was handled on its thread.
C29_Witness ==
    \E w \in Workers :
        /\ wpc[w] = "cv_wait" /\ state = "Paused"
        /\ task = w /\ sig_task[w] = 0
        /\ pause_signal /\ paused_ok

\* C30: a worker passes the start barrier only after the RESET handler has run
\* reset_vcpu on its own thread, however start()'s store of the thread's
\* handle interleaves with the worker's startup.
C30_ResetBeforeBarrier ==
    [][\A w \in Workers :
          (wpc[w] = "barrier" /\ wpc'[w] = "ready") => w \in reset_done]_vars

\* C39: at any time at most one live worker thread is in the run loop of the
\* vCPU; a start() on a vCPU whose previous worker is alive does not add a
\* second one.
C39_OneWorker ==
    Cardinality({w \in Workers : InLoop(w)}) <= 1

LastWritev(rets) == rets[Len(rets)]

C33_TxDrained ==
    (/\ avail["tx"] = <<>> /\ ~queue_evt["tx"]
     /\ ~device_broken /\ ~io_panicked)
        => used["tx"] = [i \in 1..posted["tx"] |-> i]

\* C34: after any sequence of tap, RX-eventfd and config-update events, the
\* handler's is_listening is false exactly when the notifier of its current
\* tap is parked in the event loop.
C34_ListeningIffNotParked ==
    has_tap => (~is_listening <=> tap_parked)

\* C35: the RX path runs on RX-eventfd events as on tap events: after
\* handle_rx has yielded at the packet limit by writing the RX eventfd, the
\* eventfd's callback goes on with RX processing, so that frames left in the
\* edge-triggered tap reach the available RX descriptors without a new tap
\* event.  Stated for the states in which the event loop has nothing left to
\* deliver for the RX path of a working device: when RX descriptors are
\* available, no frame that the device accepts is left in the tap.
C35_RxContinues ==
    (/\ has_tap /\ ~device_broken /\ ~io_panicked
     /\ ~queue_evt["rx"] /\ ~tap_evt
     /\ avail["rx"] # <<>>)
        => \A i \in DOMAIN tap_queue :
              FilterPackets(ctrl_info, config_mac,
                            SubSeq(tap_queue[i], 1, ETHERNET_HDR_LENGTH)) = "drop"

\* C36: a MAC TABLE_SET request that is acked ERR (its payload ends before
\* the entry counts or the entries it announces, in the unicast or in the
\* multicast part) leaves uni_mac_table, multi_mac_table and both overflow
\* flags as they were.
C36_TableSetAtomic ==
    [][(/\ CtrlStepOk
        /\ CtrlStepReq.class = "MAC" /\ CtrlStepReq.cmd = "TABLE_SET"
        /\ nev'.acks[1].ack = "VIRTIO_NET_ERR")
            => /\ ctrl_info'.uni_mac_table = ctrl_info.uni_mac_table
               /\ ctrl_info'.multi_mac_table = ctrl_info.multi_mac_table
               /\ ctrl_info'.uni_mac_of = ctrl_info.uni_mac_of
               /\ ctrl_info'.multi_mac_of = ctrl_info.multi_mac_of]_vars

\* C37: over any sequence of realize, repeated realize, control-queue
\* ADDR_SET and unrealize on several devices, every entry of USED_MAC_TABLE
\* stays at 0 or above, and no two devices that are realized at the same time
\* and got their address from get_default_mac_addr were given the same one.
C37_MacTable ==
    /\ \A i \in MacSlots : used_mac_table[i] >= 0
    /\ \A d, e \in Devs :
          (/\ d # e
           /\ nets[d].present /\ nets[e].present
           /\ nets[d].user = NoUserMac /\ nets[e].user = NoUserMac)
              => nets[d].given # nets[e].given

\* C38: when update_config runs on an activated device with k queue pairs and
\* realize has produced k taps, handler i is sent the tap of index i, for
\* every i, and each update eventfd is written once; a handler is sent None
\* only when the device has no taps; and a handler that has handled the
\* update holds the tap it was sent, with tap_fd that tap's fd.
C38_UpdateTaps ==
    [][/\ (uev'.op = "update" /\ uev'.n = uev.n + 1)
            => \A j \in DOMAIN handlers :
                  /\ (uev'.made.some /\ Len(uev'.made.taps) = Len(handlers))
                        => /\ chans'[j] = Append(chans[j], SomeTap(uev'.made.taps[j]))
                           /\ update_evts'[j] = update_evts[j] + 1
                  /\ (Len(chans'[j]) > Len(chans[j])
                            /\ ~chans'[j][Len(chans'[j])].some)
                        => ~uev'.made.some
       /\ \A j \in DOMAIN handlers :
            (uev'.op = "handle" /\ uev'.i = j /\ Len(chans'[j]) < Len(chans[j]))
                => /\ handlers'[j].tap = Head(chans[j])
                   /\ handlers'[j].tap_fd = Head(chans[j]).fd]_vars
====
